---- MODULE Spec2Model ----
(***************************************************************************)
(* A model of the resumable subtitle translation pipeline of               *)
(* src/src/subtitle_translator_smart.py (SuperSmartVTTTranslator):         *)
(* segmentation into batches, one translate_batch attempt per oracle       *)
(* reply, write-back, checkpoint save/load, output assembly, and process   *)
(* death at any step.                                                      *)
(*                                                                         *)
(* Conventions.  A Python str is a sequence of one-character strings       *)
(* (<<"a", ".">> is "a.").  Characters outside ASCII are written by code  *)
(* point: "U+4E2D" is a CJK ideograph, "U+3002" the ideographic full stop. *)
(* Python's None is the value None below.  Block and batch indices are     *)
(* 0-based as in the source: block idx is blocks[idx + 1], and a batch is  *)
(* the pair <<start_idx, end_idx>> of a half-open range.                   *)
(***************************************************************************)
EXTENDS Integers, Sequences, FiniteSets, TLC

VARIABLES
    \* ---- segmentation taken alone (SegSpec) ----
    seg_blocks,            \* create_smart_batches: the blocks argument
    seg_sizes,             \* its <<target_size, min_size, max_size>>
    seg_batches,           \* its return value
    seg_done,              \* whether it has returned
    \* ---- conversion of a caption file taken alone ----
    codec_file,            \* the caption file to read next
    codec_pc,              \* "file": a file to parse; "parsed": blocks to write
    codec_docs,            \* the block lists parsed so far, oldest first
    codec_fmts,            \* the format of the first file and of each one written
    \* ---- files ----
    input_file,            \* the input caption file: its extension and lines
    progress_file,         \* the checkpoint file on disk
    output_file,           \* the output caption file on disk
    \* ---- one run of translate_vtt_super_smart ----
    pc,                    \* position of the process
    blocks,                \* local blocks
    batches,               \* local batches
    start_batch,           \* local start_batch
    batch_idx,             \* loop variable batch_idx
    to_translate_indices,  \* local to_translate_indices
    translations,          \* local translations
    wb_pos,                \* how many pairs of the zip loop are done
    retry_count,           \* translate_batch's retry_count
    \* ---- observations (history) ----
    tb_log,                \* outcome of each oracle call of this translate_batch
    reply_entries,         \* what the reply that was accepted said of each input
    sent,                  \* block indices passed to the oracle in this run
    resent,                \* those passed while their 'translated' was set
    loaded,                \* what load_progress gave this run, None if nothing
    ckpt_before,           \* progress_file when the current batch began
    out_before,            \* output_file when this run began
    \* ---- jobs on several input files (progress file paths) ----
    path_pc,               \* "idle", "running" or "done"
    path_input,            \* input_path of the job that runs
    path_dir,              \* its progress_dir argument
    path_blocks_of,        \* the input file its blocks were parsed from
    path_ckpts             \* per progress file: the input its blocks were parsed from

seg_vars == <<seg_blocks, seg_sizes, seg_batches, seg_done>>
codec_vars == <<codec_file, codec_pc, codec_docs, codec_fmts>>
file_vars == <<input_file, progress_file, output_file>>
run_vars == <<pc, blocks, batches, start_batch, batch_idx, to_translate_indices,
              translations, wb_pos, retry_count>>
hist_vars == <<tb_log, reply_entries, sent, resent, loaded, ckpt_before, out_before>>
path_vars == <<path_pc, path_input, path_dir, path_blocks_of, path_ckpts>>
vars == <<seg_vars, codec_vars, file_vars, run_vars, hist_vars, path_vars>>

\* ------------------------------------------------------------------ bounds
\* Longest block sequence given to create_smart_batches in SegSpec.
MaxSegBlocks == 4
\* Largest max_size argument tried.
MaxSize == 3
\* Longest input document of a pipeline run.
MaxBlocks == 3
\* Most cues in a caption file that is converted.
MaxCues == 2
\* Most files written in a row from one caption file.
MaxConversions == 2
\* Longest list of texts given to translate_batch in TBSpec.
MaxTexts == 2

\* ------------------------------------------------------------------ values
None == <<"None">>

\* Python truthiness of a str-or-None value: None and '' are falsy.
Truthy(v) == v # None /\ v # <<>>

Range(s) == {s[i] : i \in DOMAIN s}

\* All sequences over S of length 0..n.
SeqUpTo(S, n) == UNION {[1..k -> S] : k \in 0..n}

\* ------------------------------------------------------------------ str helpers
\* The characters str.strip() removes and \s matches in a str pattern (those
\* of str.isspace()): the ASCII white space U+0009..U+000D, U+001C..U+001F and
\* U+0020, and the Unicode spaces.
WhiteSpace ==
    { " ", "\t", "\n", "U+000B", "\f", "\r", "U+001C", "U+001D", "U+001E", "U+001F",
      "U+0085", "U+00A0", "U+1680", "U+2000", "U+2001", "U+2002", "U+2003",
      "U+2004", "U+2005", "U+2006", "U+2007", "U+2008", "U+2009", "U+200A",
      "U+2028", "U+2029", "U+202F", "U+205F", "U+3000" }

IsSpace(c) == c \in WhiteSpace

RECURSIVE LStrip(_)
LStrip(s) == IF s # <<>> /\ IsSpace(Head(s)) THEN LStrip(Tail(s)) ELSE s

RECURSIVE RStrip(_)
RStrip(s) ==
    IF s # <<>> /\ IsSpace(s[Len(s)]) THEN RStrip(SubSeq(s, 1, Len(s) - 1)) ELSE s

\* str.strip()
Strip(s) == LStrip(RStrip(s))

\* str.endswith(suffix)
EndsWith(s, suffix) ==
    /\ Len(suffix) <= Len(s)
    /\ SubSeq(s, Len(s) - Len(suffix) + 1, Len(s)) = suffix

\* s[i-1:].startswith(sub), and str.startswith(sub)
StartsWithAt(s, i, sub) ==
    /\ i + Len(sub) - 1 <= Len(s)
    /\ SubSeq(s, i, i + Len(sub) - 1) = sub

StartsWith(s, sub) == StartsWithAt(s, 1, sub)

\* sub in s
HasSub(s, sub) == \E i \in 1..(Len(s) + 1) : StartsWithAt(s, i, sub)

\* str.replace(old, new): every occurrence of old, from left to right.
RECURSIVE ReplaceSub(_, _, _)
ReplaceSub(s, old, new) ==
    IF s = <<>> THEN <<>>
    ELSE IF StartsWith(s, old)
    THEN new \o ReplaceSub(SubSeq(s, Len(old) + 1, Len(s)), old, new)
    ELSE <<Head(s)>> \o ReplaceSub(Tail(s), old, new)

\* str.lower(), as far as the letters of ASCII go.
LowerCase ==
    ("A" :> "a") @@ ("B" :> "b") @@ ("C" :> "c") @@ ("D" :> "d") @@ ("E" :> "e")
    @@ ("F" :> "f") @@ ("G" :> "g") @@ ("H" :> "h") @@ ("I" :> "i") @@ ("J" :> "j")
    @@ ("K" :> "k") @@ ("L" :> "l") @@ ("M" :> "m") @@ ("N" :> "n") @@ ("O" :> "o")
    @@ ("P" :> "p") @@ ("Q" :> "q") @@ ("R" :> "r") @@ ("S" :> "s") @@ ("T" :> "t")
    @@ ("U" :> "u") @@ ("V" :> "v") @@ ("W" :> "w") @@ ("X" :> "x") @@ ("Y" :> "y")
    @@ ("Z" :> "z")

Lower(s) == [i \in DOMAIN s |-> IF s[i] \in DOMAIN LowerCase THEN LowerCase[s[i]] ELSE s[i]]

\* str.rfind('.') + 1: the position of the last dot of a name, or 0.
LastDot(name) ==
    LET dots == {i \in DOMAIN name : name[i] = "."} IN
        IF dots = {} THEN 0 ELSE CHOOSE i \in dots : \A j \in dots : j <= i

\* Path(name).stem: the name up to its last dot; a dot that begins or ends the
\* name begins no suffix.
stem(name) ==
    LET i == LastDot(name) IN
        IF 1 < i /\ i < Len(name) THEN SubSeq(name, 1, i - 1) ELSE name

\* The end of the longest run of elements of a class that begins at position i
\* (i - 1 if there is none).
RECURSIVE RunEnd(_, _, _)
RunEnd(line, i, class) ==
    IF i <= Len(line) /\ line[i] \in class THEN RunEnd(line, i + 1, class) ELSE i - 1

\* ------------------------------------------------------------------ Segmenter
sentence_endings ==
    { <<".">>, <<"!">>, <<"?">>, <<".", ".", ".">>,
      <<"U+3002">>, <<"U+FF01">>, <<"U+FF1F">>, <<"U+2026">> }

\* A variant that finds no text to end a sentence.
is_natural_breakpoint_Never(text) == FALSE

is_natural_breakpoint(text) ==
    LET t == Strip(text) IN
        \/ \E ending \in sentence_endings : EndsWith(t, ending)
        \/ EndsWith(t, <<".", "\"">>)
        \/ EndsWith(t, <<"!", "\"">>)
        \/ EndsWith(t, <<"?", "\"">>)

\* A variant that closes a batch at natural breakpoints only.
ClosesBatch_NoMax(text, current_size, min_size, max_size) ==
    /\ current_size >= min_size
    /\ is_natural_breakpoint(text)

\* The test that closes a batch at a block (the two nested ifs of the loop).
ClosesBatch(text, current_size, min_size, max_size) ==
    /\ current_size >= min_size
    /\ \/ is_natural_breakpoint(text)
       \/ current_size >= max_size

\* A variant that goes on counting after it has closed a batch.
RECURSIVE BatchLoop_NoReset(_, _, _, _, _)
BatchLoop_NoReset(blks, i, st, min_size, max_size) ==
    IF i > Len(blks) THEN st
    ELSE LET current_size == st.current_size + 1 IN
         IF ClosesBatch(blks[i].text, current_size, min_size, max_size)
         THEN BatchLoop_NoReset(blks, i + 1,
                                [batches |-> Append(st.batches, <<st.start_idx, i>>),
                                 start_idx |-> i, current_size |-> current_size],
                                min_size, max_size)
         ELSE BatchLoop_NoReset(blks, i + 1,
                                [st EXCEPT !.current_size = current_size],
                                min_size, max_size)

\* The body of the for loop of create_smart_batches, from (1-based) block i on.
\* st is [batches, start_idx, current_size].
RECURSIVE BatchLoop(_, _, _, _, _)
BatchLoop(blks, i, st, min_size, max_size) ==
    IF i > Len(blks) THEN st
    ELSE LET current_size == st.current_size + 1 IN
         IF ClosesBatch(blks[i].text, current_size, min_size, max_size)
         THEN BatchLoop(blks, i + 1,
                        [batches |-> Append(st.batches, <<st.start_idx, i>>),
                         start_idx |-> i, current_size |-> 0],
                        min_size, max_size)
         ELSE BatchLoop(blks, i + 1,
                        [st EXCEPT !.current_size = current_size],
                        min_size, max_size)

\* A variant that forgets what is left after the loop.
WithRemainder_Dropped(st, n) == st.batches

\* "Handle what is left": the batches returned once the loop has ended in st.
WithRemainder(st, n) ==
    IF st.start_idx < n THEN Append(st.batches, <<st.start_idx, n>>) ELSE st.batches

\* A variant that closes a batch once it has target_size blocks.
create_smart_batches_AtTarget(blks, target_size, min_size, max_size) ==
    WithRemainder(BatchLoop(blks, 1,
                            [batches |-> <<>>, start_idx |-> 0, current_size |-> 0],
                            min_size, target_size),
                  Len(blks))

\* target_size is logged and used for nothing else.
create_smart_batches(blks, target_size, min_size, max_size) ==
    WithRemainder(BatchLoop(blks, 1,
                            [batches |-> <<>>, start_idx |-> 0, current_size |-> 0],
                            min_size, max_size),
                  Len(blks))

\* ------------------------------------------------------------------ oracle replies
\* The text of a reply is a str, a sequence of characters.  The backquote is
\* written as its code point.
BQ == "U+0060"
Fence == <<BQ, BQ, BQ>>

\* content.startswith('{') and content.endswith('}')
IsBraced(c) == StartsWith(c, <<"{">>) /\ EndsWith(c, <<"}">>)

\* content.split(fence) from the text c on, cur being the part begun: the text
\* is cut at every three backquotes, from left to right.
RECURSIVE SplitFence(_, _)
SplitFence(c, cur) ==
    IF c = <<>> THEN <<cur>>
    ELSE IF StartsWith(c, Fence)
    THEN <<cur>> \o SplitFence(SubSeq(c, Len(Fence) + 1, Len(c)), <<>>)
    ELSE SplitFence(Tail(c), Append(cur, Head(c)))

\* One part of the split: strip, drop a leading 'json', strip again.
FencePart(part) ==
    LET p == Strip(part) IN
        IF StartsWith(p, <<"j", "s", "o", "n">>) THEN Strip(SubSeq(p, 5, Len(p))) ELSE p

\* Python's None where the text of a reply is expected.
NoJson == None

\* The for loop over the parts: the first part that is braced, if any.
RECURSIVE FirstBracedPart(_)
FirstBracedPart(parts) ==
    IF parts = <<>> THEN NoJson
    ELSE IF IsBraced(FencePart(Head(parts))) THEN FencePart(Head(parts))
    ELSE FirstBracedPart(Tail(parts))

\* The end of the match of \{[^{}]*(?:\{[^{}]*\}[^{}]*)*\} that begins with the
\* brace before position q, or 0 if there is none; inner: inside a nested pair.
\* The pattern sees characters only, so a brace inside a string literal counts.
RECURSIVE MatchEnd(_, _, _)
MatchEnd(c, q, inner) ==
    IF q > Len(c) THEN 0
    ELSE IF c[q] = "{" THEN (IF inner THEN 0 ELSE MatchEnd(c, q + 1, TRUE))
    ELSE IF c[q] = "}" THEN (IF inner THEN MatchEnd(c, q + 1, FALSE) ELSE q)
    ELSE MatchEnd(c, q + 1, inner)

\* re.findall: the matches from position i on, left to right, not overlapping.
RECURSIVE FindAll(_, _)
FindAll(c, i) ==
    IF i > Len(c) THEN <<>>
    ELSE LET e == IF c[i] = "{" THEN MatchEnd(c, i + 1, FALSE) ELSE 0 IN
         IF e # 0 THEN <<SubSeq(c, i, e)>> \o FindAll(c, e + 1)
         ELSE FindAll(c, i + 1)

\* max(matches, key=len): the first of the longest.
RECURSIVE MaxByLen(_)
MaxByLen(ms) ==
    IF Len(ms) = 1 THEN ms[1]
    ELSE LET rest == MaxByLen(Tail(ms)) IN
         IF Len(Head(ms)) >= Len(rest) THEN Head(ms) ELSE rest

extract_json(content) ==
    IF IsBraced(content) THEN content
    ELSE LET fenced == IF HasSub(content, Fence)
                       THEN FirstBracedPart(SplitFence(content, <<>>))
                       ELSE NoJson
             matches == FindAll(content, 1)
         IN  IF fenced # NoJson THEN fenced
             ELSE IF matches # <<>> THEN MaxByLen(matches)
             ELSE NoJson

\* str(idx) for a non-negative int.
Digits == <<"0", "1", "2", "3", "4", "5", "6", "7", "8", "9">>

RECURSIVE PyStr(_)
PyStr(n) ==
    IF n < 10 THEN <<Digits[n + 1]>>
    ELSE PyStr(n \div 10) \o <<Digits[(n % 10) + 1]>>

\* A value of a JSON object: a string (its characters) or null.
Tok(t) == [t |-> t, s |-> <<>>]
Str(s) == [t |-> "str", s |-> s]

\* The white space of JSON, and the characters below U+0020, which a string
\* literal may not hold as they are.
JsonWs == {" ", "\t", "\n", "\r"}
ControlChars ==
    { "U+0000", "U+0001", "U+0002", "U+0003", "U+0004", "U+0005", "U+0006", "U+0007",
      "U+0008", "\t", "\n", "U+000B", "\f", "\r", "U+000E", "U+000F",
      "U+0010", "U+0011", "U+0012", "U+0013", "U+0014", "U+0015", "U+0016", "U+0017",
      "U+0018", "U+0019", "U+001A", "U+001B", "U+001C", "U+001D", "U+001E", "U+001F" }

\* The character a backslash and this character stand for.
Unescaped ==
    ("\"" :> "\"") @@ ("\\" :> "\\") @@ ("/" :> "/") @@ ("b" :> "U+0008")
    @@ ("f" :> "\f") @@ ("n" :> "\n") @@ ("r" :> "\r") @@ ("t" :> "\t")

UpperHex ==
    [d \in {"0", "1", "2", "3", "4", "5", "6", "7", "8", "9",
            "A", "B", "C", "D", "E", "F"} |-> d]
    @@ ("a" :> "A") @@ ("b" :> "B") @@ ("c" :> "C") @@ ("d" :> "D")
    @@ ("e" :> "E") @@ ("f" :> "F")

\* The character of \uXXXX, for the characters told apart here; "U+XXXX" is
\* any other one.
CodePoint(h) ==
    LET u == [k \in 1..4 |-> UpperHex[h[k]]] IN
        CASE u = <<"4", "E", "2", "D">> -> "U+4E2D"
          [] u = <<"6", "5", "8", "7">> -> "U+6587"
          [] u = <<"0", "0", "6", "0">> -> BQ
          [] OTHER -> "U+XXXX"

\* scanstring from position i, after the opening quote: [ok, value, next], the
\* decoded characters and the position after the closing quote.
ScanFail == [ok |-> FALSE, value |-> <<>>, next |-> 0]

RECURSIVE scanstring(_, _, _)
scanstring(s, i, acc) ==
    IF i > Len(s) THEN ScanFail
    ELSE IF s[i] = "\"" THEN [ok |-> TRUE, value |-> acc, next |-> i + 1]
    ELSE IF s[i] \in ControlChars THEN ScanFail
    ELSE IF s[i] # "\\" THEN scanstring(s, i + 1, Append(acc, s[i]))
    ELSE IF i + 1 > Len(s) THEN ScanFail
    ELSE IF s[i + 1] \in DOMAIN Unescaped
    THEN scanstring(s, i + 2, Append(acc, Unescaped[s[i + 1]]))
    ELSE IF /\ s[i + 1] = "u"
            /\ i + 5 <= Len(s)
            /\ \A k \in 2..5 : s[i + k] \in DOMAIN UpperHex
    THEN scanstring(s, i + 6, Append(acc, CodePoint(SubSeq(s, i + 2, i + 5))))
    ELSE ScanFail

\* The value at position i: a string literal or null.  (The replies modelled
\* hold no number, true, false, array or nested object as a value.)
scan_value(s, i) ==
    IF StartsWithAt(s, i, <<"\"">>)
    THEN LET r == scanstring(s, i + 1, <<>>) IN
         [ok |-> r.ok, value |-> Str(r.value), next |-> r.next]
    ELSE IF StartsWithAt(s, i, <<"n", "u", "l", "l">>)
    THEN [ok |-> TRUE, value |-> Tok("null"), next |-> i + 4]
    ELSE ScanFail

\* json.loads of the text of an object.  The result is [ok, dict]: ok = FALSE
\* is JSONDecodeError; dict maps the key to the value, a later duplicate key
\* replacing an earlier one.
DictPut(d, k, v) == [x \in (DOMAIN d) \cup {k} |-> IF x = k THEN v ELSE d[x]]

JSONDecodeError == [ok |-> FALSE, dict |-> <<>>]

SkipWs(s, i) == RunEnd(s, i, JsonWs) + 1

\* The members of an object from the opening quote of a key at position i on:
\* [ok, dict, next], next being the position after the closing brace.
RECURSIVE ParsePairs(_, _, _)
ParsePairs(s, i, d) ==
    LET fail == [ok |-> FALSE, dict |-> <<>>, next |-> 0] IN
    IF ~ StartsWithAt(s, i, <<"\"">>) THEN fail
    ELSE LET key == scanstring(s, i + 1, <<>>) IN
         IF ~ key.ok THEN fail
         ELSE LET colon == SkipWs(s, key.next) IN
              IF ~ StartsWithAt(s, colon, <<":">>) THEN fail
              ELSE LET v == scan_value(s, SkipWs(s, colon + 1)) IN
                   IF ~ v.ok THEN fail
                   ELSE LET d2 == DictPut(d, key.value, v.value)
                            e == SkipWs(s, v.next)
                        IN  IF StartsWithAt(s, e, <<"}">>)
                            THEN [ok |-> TRUE, dict |-> d2, next |-> e + 1]
                            ELSE IF StartsWithAt(s, e, <<",">>)
                            THEN ParsePairs(s, SkipWs(s, e + 1), d2)
                            ELSE fail

json_loads(payload) ==
    LET open == SkipWs(payload, 1) IN
        IF ~ StartsWithAt(payload, open, <<"{">>) THEN JSONDecodeError
        ELSE LET first == SkipWs(payload, open + 1)
                 obj == IF StartsWithAt(payload, first, <<"}">>)
                        THEN [ok |-> TRUE, dict |-> <<>>, next |-> first + 1]
                        ELSE ParsePairs(payload, first, <<>>)
             IN  IF obj.ok /\ SkipWs(payload, obj.next) > Len(payload)
                 THEN [ok |-> TRUE, dict |-> obj.dict]
                 ELSE JSONDecodeError

\* The characters of [一-鿿] among the characters used here.
CJKChars == {"U+4E2D", "U+6587"}

has_chinese(text) == \E i \in DOMAIN text : text[i] \in CJKChars

\* ------------------------------------------------------------------ translate_batch
max_retries == 3

\* translated_dict.get(str(idx), texts[idx]) for idx in range(len(texts)); a JSON
\* null is Python's None.
ValueOf(tok) == IF tok.t = "null" THEN None ELSE tok.s

\* A variant that looks the entries up under the keys "1", "2", ...
Translations_KeysFromOne(dict, texts) ==
    [i \in 1..Len(texts) |->
        IF PyStr(i) \in DOMAIN dict THEN ValueOf(dict[PyStr(i)]) ELSE texts[i]]

\* A variant that leaves a missing entry empty.
Translations_MissingEmpty(dict, texts) ==
    [i \in 1..Len(texts) |->
        IF PyStr(i - 1) \in DOMAIN dict THEN ValueOf(dict[PyStr(i - 1)]) ELSE <<>>]

Translations(dict, texts) ==
    [i \in 1..Len(texts) |->
        IF PyStr(i - 1) \in DOMAIN dict THEN ValueOf(dict[PyStr(i - 1)]) ELSE texts[i]]

chinese_count(trans) == Cardinality({i \in DOMAIN trans : has_chinese(trans[i])})

\* A variant that also rejects a result of which exactly half is Chinese.
TooFewChinese_OrHalf(trans) == 2 * chinese_count(trans) <= Len(trans)

\* chinese_count < len(translations) * 0.5
TooFewChinese(trans) == 2 * chinese_count(trans) < Len(trans)

\* The try block of translate_batch on one reply of the oracle.  The result is
\* [exc, api, outcome, translations]: exc is "" when the block returns, else the
\* class of the exception; api: "API" occurs in str(e).
Returned(trans) ==
    [exc |-> "", api |-> FALSE, outcome |-> "ok", translations |-> trans]
Raised(exc, api, outcome) ==
    [exc |-> exc, api |-> api, outcome |-> outcome, translations |-> <<>>]

TryBlock(texts, reply) ==
    IF reply.kind = "raise"
    THEN Raised("APIError", reply.api, IF reply.api THEN "api_error" ELSE "error")
    ELSE LET content == Strip(reply.content)
             json_content == extract_json(content)
         IN  IF json_content = NoJson \/ json_content = <<>>
             THEN Raised("ValueError", FALSE, "no_json")
             ELSE LET parsed == json_loads(json_content) IN
                  IF ~ parsed.ok
                  THEN Raised("JSONDecodeError", FALSE, "decode_error")
                  ELSE LET trans == Translations(parsed.dict, texts) IN
                       IF \E i \in DOMAIN trans : trans[i] = None
                       THEN Raised("TypeError", FALSE, "not_str")
                       ELSE IF TooFewChinese(trans)
                       THEN Raised("ValueError", FALSE, "implausible")
                       ELSE Returned(trans)

\* Variants: one retry fewer, and a retry after any exception.
Retries_OneFewer(exc, api, count) ==
    IF exc = "JSONDecodeError" THEN count < max_retries - 1
    ELSE count < max_retries - 1 /\ api

Retries_Any(exc, api, count) == count < max_retries

\* A variant that compares with <= and so allows one call more.
Retries_OneMore(exc, api, count) ==
    IF exc = "JSONDecodeError" THEN count <= max_retries
    ELSE count <= max_retries /\ api

\* The two except clauses: does translate_batch call itself again?
Retries(exc, api, count) ==
    IF exc = "JSONDecodeError" THEN count < max_retries
    ELSE count < max_retries /\ api

\* ---- the replies tried ----
\* What the oracle says about one input: nothing, a string or null.  Of the
\* strings, one has a character that JSON escapes and a closing brace, one has
\* an empty object between two fences.
Missing == Tok("missing")
OracleTexts ==
    { <<"U+4E2D">>, <<"b">>, <<>>, <<"U+4E2D", "\n", "}">>,
      <<"U+4E2D", BQ, BQ, BQ, "{", "}", BQ, BQ, BQ>> }
EntryValues == {Missing, Tok("null")} \cup {Str(t) : t \in OracleTexts}

\* A text as the oracle writes it in a string literal: the quote, the
\* backslash and the control characters escaped.
RECURSIVE Literal(_)
Literal(t) ==
    IF t = <<>> THEN <<>>
    ELSE (CASE Head(t) = "\"" -> <<"\\", "\"">>
            [] Head(t) = "\\" -> <<"\\", "\\">>
            [] Head(t) = "\n" -> <<"\\", "n">>
            [] Head(t) = "\r" -> <<"\\", "r">>
            [] Head(t) = "\t" -> <<"\\", "t">>
            [] OTHER -> <<Head(t)>>) \o Literal(Tail(t))

Quoted(t) == <<"\"">> \o Literal(t) \o <<"\"">>

\* "k":v,... for the entries present, in key order.
RECURSIVE Body(_, _)
Body(entries, i) ==
    IF i > Len(entries) THEN <<>>
    ELSE LET rest == Body(entries, i + 1) IN
         IF entries[i] = Missing THEN rest
         ELSE Quoted(PyStr(i - 1)) \o <<":">>
              \o (IF entries[i] = Tok("null") THEN <<"n", "u", "l", "l">>
                  ELSE Quoted(entries[i].s))
              \o (IF rest = <<>> THEN <<>> ELSE <<",">> \o rest)

Shapes == {"direct", "padded", "fenced", "prose", "nojson", "badjson", "truncated"}

Wrap(shape, body) ==
    CASE shape = "direct"    -> <<"{">> \o body \o <<"}">>
      [] shape = "padded"    -> <<"\n", "{">> \o body \o <<"}", " ">>
      [] shape = "fenced"    -> Fence \o <<"j", "s", "o", "n", "\n", "{">> \o body
                                \o <<"}", "\n">> \o Fence
      [] shape = "prose"     -> <<"x", " ", "{">> \o body \o <<"}", " ", "x">>
      [] shape = "nojson"    -> <<"x">>
      [] shape = "badjson"   -> <<"{">> \o body \o <<"x", "}">>
      [] shape = "truncated" -> <<"{">> \o body

RaiseReplies ==
    {[kind |-> "raise", api |-> a, entries |-> <<>>, content |-> <<>>] : a \in BOOLEAN}

ContentReplies(shapes, values, n) ==
    {[kind |-> "content", api |-> FALSE, entries |-> e, content |-> Wrap(sh, Body(e, 1))] :
        sh \in shapes, e \in [1..n -> values]}

\* The replies tried on translate_batch taken alone: every shape, every entry.
Replies(n) == RaiseReplies \cup ContentReplies(Shapes, EntryValues, n)

\* The replies tried in a run of the pipeline: an exception whose text lacks
\* "API", a well-formed object whose entries are a CJK string or '', a
\* well-formed object that lacks the entry "0" and has a CJK string for every
\* other text, and an object that does not parse.  translate_batch taken alone
\* is tried on every reply (Replies).
PipelineValues == {Str(<<"U+4E2D">>), Str(<<>>)}
LacksFirst(n) ==
    {r \in ContentReplies({"direct"}, {Str(<<"U+4E2D">>), Missing}, n) :
        \A i \in 1..n : r.entries[i] = Missing <=> i = 1}
PipelineReplies(n) ==
    {r \in RaiseReplies : ~ r.api}
    \cup ContentReplies({"direct"}, PipelineValues, n)
    \cup LacksFirst(n)
    \cup ContentReplies({"badjson"}, {Missing}, n)

\* ------------------------------------------------------------------ caption codec
\* The text of a caption file is a list of lines (content.split('\n')), a line
\* a sequence of atoms.  An atom is a character or a piece of text that the
\* codec handles as a whole: "-->", a tag such as "<i>", the entity "&nbsp;",
\* a header word, a run of digits, and the hours:minutes:seconds part of a
\* timestamp.  The texts used never form one of these pieces out of smaller
\* atoms.  A timestamp such as 00:00:01.500 is <<"00:00:01", ".", "500">>.
DigitAtoms == {"0", "1", "2", "3", "4", "5", "6", "7", "8", "9", "42", "000", "500"}
HMS == <<"00:00:00", "00:00:01", "00:00:02", "00:00:03", "00:00:04", "00:00:05",
         "00:00:06", "00:00:07", "00:00:08", "00:00:09", "00:00:10">>
HMSAtoms == Range(HMS)
TagAtoms == {"<i>", "</i>", "<c>", "</c>"}
HeaderAtoms == {"WEBVTT", "Kind:", "Language:"}

\* str.isdigit()
IsDigit(s) == s # <<>> /\ \A i \in DOMAIN s : s[i] \in DigitAtoms

\* substring in line
Contains(line, atom) == \E i \in DOMAIN line : line[i] = atom

\* \d+:\d+:\d+<sep>\d+ at position i: the position of its last atom, or 0.
TimestampEnd(line, i, sep) ==
    LET h == RunEnd(line, i, DigitAtoms) + 1 IN
        IF ~ (h <= Len(line) /\ line[h] \in HMSAtoms) THEN 0
        ELSE LET p == RunEnd(line, h + 1, DigitAtoms) + 1 IN
             IF ~ (p <= Len(line) /\ line[p] = sep) THEN 0
             ELSE LET e == RunEnd(line, p + 1, DigitAtoms) IN
                  IF e = p THEN 0 ELSE e

\* re.match of (timestamp)\s*-->\s*(timestamp) on a line: [ok, start, end].
NoMatch == [ok |-> FALSE, start_time |-> <<>>, end_time |-> <<>>]

MatchTimestamps(line, sep) ==
    LET e1 == TimestampEnd(line, 1, sep) IN
        IF e1 = 0 THEN NoMatch
        ELSE LET a == RunEnd(line, e1 + 1, WhiteSpace) + 1 IN
             IF ~ (a <= Len(line) /\ line[a] = "-->") THEN NoMatch
             ELSE LET b == RunEnd(line, a + 1, WhiteSpace) + 1
                      e2 == TimestampEnd(line, b, sep)
                  IN  IF e2 = 0 THEN NoMatch
                      ELSE [ok |-> TRUE, start_time |-> SubSeq(line, 1, e1),
                            end_time |-> SubSeq(line, b, e2)]

\* str.replace(old, new) on single atoms.
Replace(s, old, new) == [i \in DOMAIN s |-> IF s[i] = old THEN new ELSE s[i]]

\* re.sub(r'<[^>]+>', '', s)
RemoveTags(s) == SelectSeq(s, LAMBDA a : a \notin TagAtoms)

\* ' '.join(text_lines)
RECURSIVE Join(_)
Join(text_lines) ==
    IF text_lines = <<>> THEN <<>>
    ELSE IF Len(text_lines) = 1 THEN text_lines[1]
    ELSE text_lines[1] \o <<" ">> \o Join(Tail(text_lines))

\* One text line of a VTT cue: strip, entity to space, tags removed.
VttTextLine(raw) == RemoveTags(Replace(Strip(raw), "&nbsp;", " "))

\* The inner while loop of parse_vtt from line i on: [i, text_lines].
RECURSIVE VttTextLines(_, _, _)
VttTextLines(lines, i, text_lines) ==
    IF i <= Len(lines) /\ Strip(lines[i]) # <<>> /\ ~ Contains(lines[i], "-->")
    THEN LET text_line == VttTextLine(lines[i]) IN
         VttTextLines(lines, i + 1,
                      IF text_line # <<>> THEN Append(text_lines, text_line)
                      ELSE text_lines)
    ELSE [i |-> i, text_lines |-> text_lines]

\* The outer while loop of parse_vtt from line i on.
RECURSIVE VttLoop(_, _, _)
VttLoop(lines, i, blks) ==
    IF i > Len(lines) THEN blks
    ELSE LET line == Strip(lines[i]) IN
         IF line = <<>> \/ line[1] \in HeaderAtoms THEN VttLoop(lines, i + 1, blks)
         ELSE IF Contains(line, "-->")
         THEN LET match == MatchTimestamps(line, ".") IN
              IF ~ match.ok THEN VttLoop(lines, i + 1, blks)
              ELSE LET t == VttTextLines(lines, i + 1, <<>>) IN
                   VttLoop(lines, t.i,
                           IF t.text_lines # <<>>
                           THEN Append(blks, [start_time |-> match.start_time,
                                              end_time |-> match.end_time,
                                              text |-> Join(t.text_lines)])
                           ELSE blks)
         ELSE VttLoop(lines, i + 1, blks)

parse_vtt(lines) == VttLoop(lines, 1, <<>>)

\* The inner while loop of parse_srt from line i on: [i, text_lines].
RECURSIVE SrtTextLines(_, _, _)
SrtTextLines(lines, i, text_lines) ==
    IF i <= Len(lines) /\ Strip(lines[i]) # <<>>
    THEN SrtTextLines(lines, i + 1, Append(text_lines, Strip(lines[i])))
    ELSE [i |-> i, text_lines |-> text_lines]

\* The outer while loop of parse_srt from line i on.
RECURSIVE SrtLoop(_, _, _)
SrtLoop(lines, i, blks) ==
    IF i > Len(lines) THEN blks
    ELSE LET line == Strip(lines[i]) IN
         IF line = <<>> THEN SrtLoop(lines, i + 1, blks)
         ELSE IF IsDigit(line)
         THEN IF i + 1 <= Len(lines) /\ Contains(lines[i + 1], "-->")
              THEN LET match == MatchTimestamps(Strip(lines[i + 1]), ",") IN
                   IF ~ match.ok THEN SrtLoop(lines, i + 2, blks)
                   ELSE LET t == SrtTextLines(lines, i + 2, <<>>) IN
                        SrtLoop(lines, t.i,
                                IF t.text_lines # <<>>
                                THEN Append(blks,
                                        [start_time |-> Replace(match.start_time, ",", "."),
                                         end_time |-> Replace(match.end_time, ",", "."),
                                         text |-> Join(t.text_lines)])
                                ELSE blks)
              ELSE SrtLoop(lines, i + 1, blks)
         ELSE SrtLoop(lines, i + 1, blks)

parse_srt(lines) == SrtLoop(lines, 1, <<>>)

\* The calls of f.write that write_vtt makes for the blocks, one after the
\* other.  A call is given by the lines its text ends: the timing line, then
\* the text and the empty line after it.
RECURSIVE CueWritesVtt(_)
CueWritesVtt(blks) ==
    IF blks = <<>> THEN <<>>
    ELSE << << blks[1].start_time \o <<" ", "-->", " ">> \o blks[1].end_time >>,
            << blks[1].text, <<>> >> >> \o CueWritesVtt(Tail(blks))

\* Those of write_srt: the number of the cue, from 1, the timing line with
\* '.' written as ',', then the text and the empty line.
RECURSIVE CueWritesSrt(_, _)
CueWritesSrt(blks, i) ==
    IF blks = <<>> THEN <<>>
    ELSE << << PyStr(i) >>,
            << Replace(blks[1].start_time, ".", ",") \o <<" ", "-->", " ">>
                \o Replace(blks[1].end_time, ".", ",") >>,
            << blks[1].text, <<>> >> >> \o CueWritesSrt(Tail(blks), i + 1)

\* All calls of f.write of write_vtt (three for the header first) or
\* write_srt.
Writes(blks, format_type) ==
    IF format_type = "vtt"
    THEN << << <<"WEBVTT">> >>,
            << <<"Kind:", " ", "captions">> >>,
            << <<"Language:", " ", "zh">>, <<>> >> >> \o CueWritesVtt(blks)
    ELSE CueWritesSrt(blks, 1)

\* The lines of a file that holds the text of these calls (the text of the
\* file split at '\n'; every call ends its last line).
RECURSIVE FileLines(_)
FileLines(writes) ==
    IF writes = <<>> THEN << <<>> >>
    ELSE Head(writes) \o FileLines(Tail(writes))

write_vtt(blks) == FileLines(Writes(blks, "vtt"))

write_srt(blks) == FileLines(Writes(blks, "srt"))

\* '.vtt' and '.srt'
Suffix(format_type) ==
    IF format_type = "vtt" THEN <<".", "v", "t", "t">> ELSE <<".", "s", "r", "t">>

\* A caption file: its name, a str, and its lines.  detect_format gives 'vtt'
\* or 'srt', or "ValueError" when it raises.
detect_format(file) ==
    LET first_line == IF file.lines = <<>> THEN <<>> ELSE Strip(file.lines[1]) IN
        IF first_line # <<>> /\ first_line[1] = "WEBVTT" THEN "vtt"
        ELSE IF IsDigit(first_line) THEN "srt"
        ELSE IF EndsWith(Lower(file.name), Suffix("vtt")) THEN "vtt"
        ELSE IF EndsWith(Lower(file.name), Suffix("srt")) THEN "srt"
        ELSE "ValueError"

\* parse_subtitle: <<format, blocks>>, or "ValueError" raised by detect_format.
parse_subtitle(file) ==
    LET format_type == detect_format(file) IN
        IF format_type = "ValueError" THEN << "ValueError", <<>> >>
        ELSE << format_type,
                IF format_type = "vtt" THEN parse_vtt(file.lines)
                ELSE parse_srt(file.lines) >>

\* write_subtitle: the file at output_path (its name).
write_subtitle(blks, output_path, format_type) ==
    [name |-> output_path,
     lines |-> IF format_type = "vtt" THEN write_vtt(blks) ELSE write_srt(blks)]

\* ------------------------------------------------------------------ files
\* A file that is not there, and the checkpoint file between open(..., 'w'),
\* which truncates it, and the end of json.dump.
NoFile ==
    [exists |-> FALSE, json |-> FALSE, keys |-> {}, current_batch |-> 0,
     batches |-> <<>>, blocks |-> <<>>]
Torn == [NoFile EXCEPT !.exists = TRUE]

ProgressKeys == {"timestamp", "current_batch", "total_blocks", "batches", "blocks"}

\* A variant that records the batch just translated as the next one.
save_progress_PrevBatch(blks, current_batch, bts) ==
    [exists |-> TRUE, json |-> TRUE, keys |-> ProgressKeys,
     current_batch |-> current_batch - 1, batches |-> bts, blocks |-> blks]

\* The file save_progress leaves when json.dump has ended.
save_progress(blks, current_batch, bts) ==
    [exists |-> TRUE, json |-> TRUE, keys |-> ProgressKeys,
     current_batch |-> current_batch, batches |-> bts, blocks |-> blks]

\* load_progress: (blocks, current_batch, batches), an argument being None when
\* its _is_None is TRUE.  Any exception of the try block gives (None, 0, None).
NothingLoaded ==
    [blocks_is_None |-> TRUE, blocks |-> <<>>, current_batch |-> 0,
     batches_is_None |-> TRUE, batches |-> <<>>]

load_progress(pf) ==
    IF ~ pf.exists THEN NothingLoaded
    ELSE IF ~ pf.json THEN NothingLoaded
    ELSE IF ~ ({"blocks", "current_batch", "timestamp"} \subseteq pf.keys)
    THEN NothingLoaded
    ELSE [blocks_is_None |-> FALSE, blocks |-> pf.blocks,
          current_batch |-> pf.current_batch,
          batches_is_None |-> "batches" \notin pf.keys,
          batches |-> IF "batches" \in pf.keys THEN pf.batches ELSE <<>>]

\* The blocks built from the parsed cues: no 'translated' key yet.
FreshBlocks(cues) ==
    [i \in 1..Len(cues) |->
        [text |-> cues[i].text, start_time |-> cues[i].start_time,
         end_time |-> cues[i].end_time, translated |-> None]]

\* A variant that writes the translated field whatever it holds.
output_blocks_NoFallback(blks) ==
    [i \in 1..Len(blks) |->
        [start_time |-> blks[i].start_time, end_time |-> blks[i].end_time,
         text |-> blks[i].translated]]

\* The output blocks handed to write_subtitle.
output_blocks(blks) ==
    [i \in 1..Len(blks) |->
        [start_time |-> blks[i].start_time, end_time |-> blks[i].end_time,
         text |-> IF Truthy(blks[i].translated) THEN blks[i].translated
                  ELSE blks[i].text]]

NoOutput == [exists |-> FALSE, name |-> <<>>, lines |-> <<>>]

\* The name of the default output path: '.en.vtt' in the name of the input
\* replaced by '.zh.vtt', or '_zh.vtt' after its stem; likewise with '.srt'.
OutputName(input_name, input_format) ==
    LET en == <<".", "e", "n">> \o Suffix(input_format)
        zh == <<".", "z", "h">> \o Suffix(input_format)
    IN  IF HasSub(input_name, en) THEN ReplaceSub(input_name, en, zh)
        ELSE stem(input_name) \o <<"_", "z", "h">> \o Suffix(input_format)

\* The output file after open(output_path, 'w'): there, and empty.
OpenedOutput(output_path) == [exists |-> TRUE, name |-> output_path, lines |-> << <<>> >>]

\* A variant that writes WebVTT whatever the input was.
WrittenOutput_AlwaysVtt(blks, input_name, input_format) ==
    LET f == write_subtitle(output_blocks(blks), OutputName(input_name, input_format),
                            "vtt")
    IN  [exists |-> TRUE, name |-> f.name, lines |-> f.lines]

\* The output file as write_subtitle leaves it.
WrittenOutput(blks, input_name, input_format) ==
    LET f == write_subtitle(output_blocks(blks), OutputName(input_name, input_format),
                            input_format)
    IN  [exists |-> TRUE, name |-> f.name, lines |-> f.lines]

\* The output file of a process killed inside write_subtitle, after the open
\* and before the last call of f.write.  An exception (KeyboardInterrupt)
\* leaves the with block, which closes the file: the file holds the calls made
\* so far, and may end inside the header or inside a cue.  A process that is
\* ended without that leaves what its buffer held unwritten: the empty file.
PartialOutputs(blks, input_name, input_format) ==
    LET writes == Writes(output_blocks(blks), input_format) IN
        {[exists |-> TRUE, name |-> OutputName(input_name, input_format),
          lines |-> FileLines(SubSeq(writes, 1, k))] : k \in 0..(Len(writes) - 1)}

\* range(start, end) as a sequence.
PyRange(lo, hi) == [i \in 1..(IF hi > lo THEN hi - lo ELSE 0) |-> lo + i - 1]

\* A variant that takes every block of the batch.
ToTranslate_All(blks, batch) == PyRange(batch[1], batch[2])

\* "Filter the translated ones": the indices of the batch's blocks to translate.
ToTranslate(blks, batch) ==
    SelectSeq(PyRange(batch[1], batch[2]), LAMBDA idx : ~ Truthy(blks[idx + 1].translated))

\* A variant that starts the loop over.
StartBatch_Zero(lp) == 0

\* The batch the loop starts at, from what load_progress returned.
StartBatch(lp) == lp.current_batch

\* A variant whose except branch saves the progress before it returns.
AfterBatchFailure_Saved(pf, blks, idx, bts) == save_progress(blks, idx, bts)

\* The checkpoint file after the except branch of the loop, which only logs.
AfterBatchFailure(pf, blks, idx, bts) == pf

\* zip(to_translate_indices, translations) has this many pairs.
ZipLen(a, b) == IF Len(a) < Len(b) THEN Len(a) ELSE Len(b)

\* ------------------------------------------------------------------ inputs
PipelineTexts == { <<"a">>, <<"a", ".">> }

\* Second i as a timestamp in memory, 00:00:0i.000.
Timestamp(i) == <<HMS[i + 1], ".", "000">>

\* The i-th parsed cue of a file whose cues last one second each.
Cue(i, t) == [text |-> t, start_time |-> Timestamp(i - 1), end_time |-> Timestamp(i)]

\* The same cue as an author writes it: its text on one or more lines.
RawCue(i, ls) == [lines |-> ls, start_time |-> Timestamp(i - 1), end_time |-> Timestamp(i)]

\* A WebVTT file: the header, an empty line, and each cue as a timing line, its
\* text lines and an empty line.
RECURSIVE VttCues(_)
VttCues(cues) ==
    IF cues = <<>> THEN <<>>
    ELSE << cues[1].start_time \o <<" ", "-->", " ">> \o cues[1].end_time >>
         \o cues[1].lines \o << <<>> >> \o VttCues(Tail(cues))

VttFile(cues) ==
    [name |-> <<"a", ".", "e", "n", ".", "v", "t", "t">>,
     lines |-> << <<"WEBVTT">>, <<>> >> \o VttCues(cues)]

\* A SubRip file: each cue as its number, a timing line with ',', its text
\* lines and an empty line.
RECURSIVE SrtCues(_, _)
SrtCues(cues, i) ==
    IF cues = <<>> THEN <<>>
    ELSE << PyStr(i),
            Replace(cues[1].start_time, ".", ",") \o <<" ", "-->", " ">>
                \o Replace(cues[1].end_time, ".", ",") >>
         \o cues[1].lines \o << <<>> >> \o SrtCues(Tail(cues), i + 1)

SrtFile(cues) ==
    [name |-> <<"a", ".", "e", "n", ".", "s", "r", "t">>, lines |-> SrtCues(cues, 1)]

\* The cues of a file with these one-line texts.
RawCues(ts) == [i \in 1..Len(ts) |-> RawCue(i, <<ts[i]>>)]

\* A file whose name and first line tell no format.
UnknownFile == [name |-> <<"a", ".", "t", "x", "t">>, lines |-> << <<"a">> >>]

\* A WebVTT file under a name that ends in .srt.
MisnamedFile ==
    [name |-> <<"a", ".", "e", "n", ".", "v", "t", "t", ".", "s", "r", "t">>,
     lines |-> VttFile(RawCues(<< <<"a">> >>)).lines]

SrtPipelineTexts == { <<"a">> }

InputFiles ==
    {VttFile(RawCues(ts)) : ts \in SeqUpTo(PipelineTexts, MaxBlocks)}
    \cup {SrtFile(RawCues(ts)) : ts \in SeqUpTo(SrtPipelineTexts, MaxBlocks)}
    \cup {UnknownFile, MisnamedFile}

\* The blocks of a file as parse_subtitle gives them.
Parsed(file) == parse_subtitle(file)[2]

\* <<target_size, min_size, max_size>> with 1 <= min <= target <= max <= MaxSize.
SizeArgs ==
    {<<t, mn, mx>> : t \in 1..MaxSize, mn \in 1..MaxSize, mx \in 1..MaxSize}
    \cap {a \in (1..MaxSize) \X (1..MaxSize) \X (1..MaxSize) : a[2] <= a[1] /\ a[1] <= a[3]}

\* create_smart_batches on the fresh blocks of each input file, for each of
\* the size arguments.  The segmentation depends on the blocks and the sizes
\* only, so it is worked out once for each and looked up by the runs.
Segmentations ==
    [blks \in {FreshBlocks(Parsed(file)) : file \in InputFiles} |->
        [size \in SizeArgs |-> create_smart_batches(blks, size[1], size[2], size[3])]]

\* A variant that segments anew on every run.
BatchesOfRun_Recomputed(lp, fresh, size) == Segmentations[fresh][size]

\* The batch list of a run: segmentation happens under "if blocks is None"
\* only, otherwise the list load_progress returned is used.
BatchesOfRun(lp, fresh, size) ==
    IF lp.blocks_is_None THEN Segmentations[fresh][size] ELSE lp.batches

\* ------------------------------------------------------------------ progress file paths
\* A path is a directory and a file name, the name a str.
PathDirs == { <<"d1">>, <<"d2">> }
PathNames ==
    { <<"a", ".", "e", "n", ".", "v", "t", "t">>,
      <<"a", ".", "e", "n", ".", "s", "r", "t">>,
      <<".", "v", "t", "t">> }
PathInputs == [dir : PathDirs, name : PathNames]
ProgressDirs == { None, <<"p">> }
NoInput == [dir |-> <<>>, name |-> <<>>]

\* The progress file of a job: <stem>_smart_progress.json in progress_dir, or
\* in .translation_progress next to the input where no directory is given.
ProgressFileOf(input_path, progress_dir) ==
    [dir |-> IF Truthy(progress_dir) THEN progress_dir
             ELSE Append(input_path.dir, ".translation_progress"),
     name |-> stem(input_path.name)
              \o <<"_", "s", "m", "a", "r", "t", "_", "p", "r", "o", "g", "r", "e", "s",
                   "s", ".", "j", "s", "o", "n">>]

ProgressFiles == {ProgressFileOf(i, d) : i \in PathInputs, d \in ProgressDirs}

\* A progress file as the jobs see it: whether it is there, and the input
\* whose blocks it holds.  Between open(progress_file, 'w') and the end of
\* json.dump it is there and holds nothing that can be loaded.
NoCkpt == [exists |-> FALSE, of |-> NoInput]
TornCkpt == [exists |-> TRUE, of |-> NoInput]
SavedCkpt(input_path) == [exists |-> TRUE, of |-> input_path]

\* No job runs and no progress file exists.
PathIdle ==
    /\ path_pc = "idle"
    /\ path_input = NoInput
    /\ path_dir = None
    /\ path_blocks_of = NoInput
    /\ path_ckpts = [f \in ProgressFiles |-> NoCkpt]

\* ------------------------------------------------------------------ the process
Stopped == {"idle", "killed", "failed", "empty", "raised", "done"}
Running == {"loop", "call", "writeback", "save", "dump", "write", "cleanup"}

NotLoaded == [resume |-> FALSE, ckpt |-> "unused", k |-> 0]

\* The memory of a process that does not run.
NoRun ==
    /\ blocks = <<>>
    /\ batches = <<>>
    /\ start_batch = 0
    /\ batch_idx = 0
    /\ to_translate_indices = <<>>
    /\ translations = <<>>
    /\ wb_pos = 0
    /\ retry_count = 0

NoHistory ==
    /\ tb_log = <<>>
    /\ reply_entries = <<>>
    /\ sent = {}
    /\ resent = {}
    /\ loaded = NotLoaded
    /\ ckpt_before = NoFile
    /\ out_before = NoOutput

SegIdle ==
    /\ seg_blocks = <<>>
    /\ seg_sizes = <<1, 1, 1>>
    /\ seg_batches = <<>>
    /\ seg_done = FALSE

\* No conversion is going on.
CodecIdle ==
    /\ codec_file = UnknownFile
    /\ codec_pc = "idle"
    /\ codec_docs = <<>>
    /\ codec_fmts = <<>>

Init ==
    /\ SegIdle
    /\ CodecIdle
    /\ PathIdle
    /\ input_file \in InputFiles
    /\ progress_file = NoFile
    /\ output_file = NoOutput
    /\ pc = "idle"
    /\ NoRun
    /\ NoHistory

\* How the checkpoint file looks to a run that starts.
CkptKind(pf) ==
    IF ~ pf.exists THEN "absent"
    ELSE IF pf.json /\ ProgressKeys \subseteq pf.keys THEN "ok"
    ELSE "malformed"

\* translate_vtt_super_smart up to the loop: detect the format (a ValueError
\* leaves the function before the checkpoint is looked at), load the progress,
\* or parse and segment.  len(batches) of a batch list that is None raises
\* TypeError.  A job that is done is not run again, and resume is only switched
\* off where no readable checkpoint is there to be ignored.  The size arguments
\* act through the batch list alone, so the run is started once for each batch
\* list that some size arguments give.
StartRun ==
    /\ pc \in Stopped \ {"done"}
    /\ \E resume \in BOOLEAN,
          input_format \in {detect_format(input_file)},
          fresh \in {FreshBlocks(Parsed(input_file))} :
        /\ resume \/ CkptKind(progress_file) # "ok"
        /\ LET read == resume /\ input_format # "ValueError"
               lp == IF resume THEN load_progress(progress_file) ELSE NothingLoaded
               blks == IF lp.blocks_is_None THEN fresh ELSE lp.blocks
           IN  \E bts \in {BatchesOfRun(lp, fresh, size) : size \in SizeArgs} :
               /\ loaded' = [resume |-> resume,
                             ckpt |-> IF read THEN CkptKind(progress_file) ELSE "unused",
                             k |-> IF read /\ CkptKind(progress_file) = "ok"
                                   THEN progress_file.current_batch ELSE 0]
               /\ IF input_format = "ValueError"
                  THEN /\ pc' = "raised"
                       /\ blocks' = <<>> /\ batches' = <<>>
                       /\ start_batch' = 0 /\ batch_idx' = 0
                  ELSE IF lp.blocks_is_None /\ fresh = <<>>
                  THEN /\ pc' = "empty"
                       /\ blocks' = <<>> /\ batches' = <<>>
                       /\ start_batch' = 0 /\ batch_idx' = 0
                  ELSE IF ~ lp.blocks_is_None /\ lp.batches_is_None
                  THEN /\ pc' = "raised"
                       /\ blocks' = <<>> /\ batches' = <<>>
                       /\ start_batch' = 0 /\ batch_idx' = 0
                  ELSE /\ pc' = "loop"
                       /\ blocks' = blks
                       /\ batches' = bts
                       /\ start_batch' = StartBatch(lp)
                       /\ batch_idx' = StartBatch(lp)
    /\ to_translate_indices' = <<>>
    /\ translations' = <<>>
    /\ wb_pos' = 0
    /\ retry_count' = 0
    /\ tb_log' = <<>>
    /\ reply_entries' = <<>>
    /\ sent' = {}
    /\ resent' = {}
    /\ ckpt_before' = progress_file
    /\ out_before' = output_file
    /\ UNCHANGED <<path_vars, seg_vars, codec_vars, file_vars>>

\* The head of one iteration of the loop: pick what is to translate; a batch
\* with nothing to translate is skipped.
BeginBatch ==
    /\ pc = "loop"
    /\ batch_idx < Len(batches)
    /\ LET todo == ToTranslate(blocks, batches[batch_idx + 1]) IN
        IF todo = <<>>
        THEN /\ batch_idx' = batch_idx + 1
             /\ UNCHANGED <<pc, to_translate_indices, ckpt_before>>
        ELSE /\ pc' = "call"
             /\ to_translate_indices' = todo
             /\ ckpt_before' = progress_file
             /\ UNCHANGED batch_idx
    /\ UNCHANGED <<path_vars, seg_vars, codec_vars, file_vars, blocks, batches, start_batch,
                   translations,
                   wb_pos, retry_count, tb_log, reply_entries, sent, resent, loaded,
                   out_before>>

\* One call of translate_batch (one reply of the oracle): it returns (and its
\* frame is gone), calls itself again, or raises into the except branch of the
\* loop, which returns None.
TranslateBatchOn(replies) ==
    /\ pc = "call"
    /\ LET texts == [j \in DOMAIN to_translate_indices |->
                        blocks[to_translate_indices[j] + 1].text]
       IN \E reply \in replies :
            LET r == TryBlock(texts, reply) IN
            /\ sent' = sent \cup Range(to_translate_indices)
            /\ resent' = resent \cup
                    {idx \in Range(to_translate_indices) : blocks[idx + 1].translated # None}
            /\ IF r.exc = ""
               THEN /\ pc' = "writeback"
                    /\ translations' = r.translations
                    /\ reply_entries' = reply.entries
                    /\ retry_count' = 0
                    /\ tb_log' = <<>>
                    /\ UNCHANGED progress_file
               ELSE IF Retries(r.exc, r.api, retry_count)
               THEN /\ retry_count' = retry_count + 1
                    /\ tb_log' = Append(tb_log, r.outcome)
                    /\ UNCHANGED <<pc, translations, reply_entries, progress_file>>
               ELSE /\ pc' = "failed"
                    /\ tb_log' = Append(tb_log, r.outcome)
                    /\ progress_file' =
                          AfterBatchFailure(progress_file, blocks, batch_idx, batches)
                    /\ UNCHANGED <<retry_count, translations, reply_entries>>
    /\ UNCHANGED <<path_vars, seg_vars, codec_vars, input_file, output_file, blocks, batches,
                   start_batch,
                   batch_idx, to_translate_indices, wb_pos, loaded, ckpt_before,
                   out_before>>

TranslateBatch == TranslateBatchOn(PipelineReplies(Len(to_translate_indices)))

\* A variant that saves the progress after the first pair already.
WriteBack_Early ==
    /\ pc = "writeback"
    /\ wb_pos < ZipLen(to_translate_indices, translations)
    /\ blocks' = [blocks EXCEPT
                    ![to_translate_indices[wb_pos + 1] + 1].translated =
                        translations[wb_pos + 1]]
    /\ wb_pos' = wb_pos + 1
    /\ pc' = "save"
    /\ reply_entries' = <<>>
    /\ UNCHANGED <<path_vars, seg_vars, codec_vars, file_vars, batches, start_batch, batch_idx,
                   to_translate_indices, translations, retry_count, tb_log, sent,
                   resent, loaded, ckpt_before, out_before>>

\* One pair of the zip loop that stores the translations; after the last pair
\* comes save_progress.
WriteBack ==
    /\ pc = "writeback"
    /\ wb_pos < ZipLen(to_translate_indices, translations)
    /\ blocks' = [blocks EXCEPT
                    ![to_translate_indices[wb_pos + 1] + 1].translated =
                        translations[wb_pos + 1]]
    /\ wb_pos' = wb_pos + 1
    /\ pc' = IF wb_pos + 1 = ZipLen(to_translate_indices, translations)
             THEN "save" ELSE "writeback"
    /\ reply_entries' = <<>>
    /\ UNCHANGED <<path_vars, seg_vars, codec_vars, file_vars, batches, start_batch, batch_idx,
                   to_translate_indices, translations, retry_count, tb_log, sent,
                   resent, loaded, ckpt_before, out_before>>

\* save_progress, first half: open(progress_file, 'w') truncates the file.
SaveOpen ==
    /\ pc = "save"
    /\ progress_file' = Torn
    /\ pc' = "dump"
    /\ UNCHANGED <<path_vars, seg_vars, codec_vars, input_file, output_file, blocks, batches,
                   start_batch,
                   batch_idx, to_translate_indices, translations, wb_pos, retry_count,
                   hist_vars>>

\* save_progress, second half: json.dump ends and the file is closed; the loop
\* goes on to the next batch, the locals of this iteration being dead.
SaveDump ==
    /\ pc = "dump"
    /\ progress_file' = save_progress(blocks, batch_idx + 1, batches)
    /\ pc' = "loop"
    /\ batch_idx' = batch_idx + 1
    /\ to_translate_indices' = <<>>
    /\ translations' = <<>>
    /\ wb_pos' = 0
    /\ UNCHANGED <<path_vars, seg_vars, codec_vars, input_file, output_file, blocks, batches,
                   start_batch,
                   retry_count, hist_vars>>

\* A variant that opens the output from inside the loop.
OpenOutput_Early ==
    /\ pc = "loop"
    /\ output_file' = OpenedOutput(OutputName(input_file.name, detect_format(input_file)))
    /\ pc' = "write"
    /\ UNCHANGED <<path_vars, seg_vars, codec_vars, input_file, progress_file, blocks, batches,
                   start_batch,
                   batch_idx, to_translate_indices, translations, wb_pos, retry_count,
                   hist_vars>>

\* After the loop: build the output blocks and call write_subtitle, which
\* first opens the output file; open(output_path, 'w') leaves it empty.
OpenOutput ==
    /\ pc = "loop"
    /\ batch_idx >= Len(batches)
    /\ output_file' = OpenedOutput(OutputName(input_file.name, detect_format(input_file)))
    /\ pc' = "write"
    /\ UNCHANGED <<path_vars, seg_vars, codec_vars, input_file, progress_file, blocks, batches,
                   start_batch,
                   batch_idx, to_translate_indices, translations, wb_pos, retry_count,
                   hist_vars>>

\* The writes of write_subtitle and the close of the output file.
WriteOutput ==
    /\ pc = "write"
    /\ output_file' = WrittenOutput(blocks, input_file.name, detect_format(input_file))
    /\ pc' = "cleanup"
    /\ UNCHANGED <<path_vars, seg_vars, codec_vars, input_file, progress_file, blocks, batches,
                   start_batch,
                   batch_idx, to_translate_indices, translations, wb_pos, retry_count,
                   hist_vars>>

\* A variant that returns the output path and leaves the progress file.
Cleanup_Kept ==
    /\ pc = "cleanup"
    /\ pc' = "done"
    /\ UNCHANGED <<path_vars, seg_vars, codec_vars, file_vars, blocks, batches, start_batch,
                   batch_idx,
                   to_translate_indices, translations, wb_pos, retry_count,
                   hist_vars>>

\* Remove the progress file if it exists, and return the output path.
Cleanup ==
    /\ pc = "cleanup"
    /\ progress_file' = NoFile
    /\ pc' = "done"
    /\ UNCHANGED <<path_vars, seg_vars, codec_vars, input_file, output_file, blocks, batches,
                   start_batch,
                   batch_idx, to_translate_indices, translations, wb_pos, retry_count,
                   hist_vars>>

\* The process is killed: its memory is gone, the files stay as they are,
\* the output file being one of left.
KillLeaving(left) ==
    /\ pc \in Running
    /\ output_file' \in left
    /\ pc' = "killed"
    /\ blocks' = <<>>
    /\ batches' = <<>>
    /\ start_batch' = 0
    /\ batch_idx' = 0
    /\ to_translate_indices' = <<>>
    /\ translations' = <<>>
    /\ wb_pos' = 0
    /\ retry_count' = 0
    /\ tb_log' = <<>>
    /\ reply_entries' = <<>>
    /\ sent' = {}
    /\ resent' = {}
    /\ loaded' = NotLoaded
    /\ ckpt_before' = NoFile
    /\ out_before' = NoOutput
    /\ UNCHANGED <<path_vars, seg_vars, codec_vars, input_file, progress_file>>

\* A kill inside write_subtitle leaves the output file with the calls of
\* f.write made so far, any other kill the output file as it was.
Kill ==
    KillLeaving(IF pc = "write"
                THEN PartialOutputs(blocks, input_file.name, detect_format(input_file))
                ELSE {output_file})

\* The checkpoint file is damaged while no process runs and before the job has
\* written its output: it is no longer JSON, or one key is gone.  What a reader
\* cannot reach any more is blanked.
Damages == {"invalid_json", "no_blocks", "no_current_batch", "no_batches", "no_timestamp"}

Damaged(pf, d) ==
    CASE d = "invalid_json" -> Torn
      [] d = "no_batches"   -> [pf EXCEPT !.keys = @ \ {"batches"}, !.batches = <<>>]
      [] d = "no_blocks"    -> [Torn EXCEPT !.json = TRUE, !.keys = ProgressKeys \ {"blocks"}]
      [] d = "no_current_batch" ->
            [Torn EXCEPT !.json = TRUE, !.keys = ProgressKeys \ {"current_batch"}]
      [] d = "no_timestamp" ->
            [Torn EXCEPT !.json = TRUE, !.keys = ProgressKeys \ {"timestamp"}]

Damage ==
    /\ pc \in Stopped \ {"done"}
    /\ CkptKind(progress_file) = "ok"
    /\ ~ output_file.exists
    /\ \E d \in Damages : progress_file' = Damaged(progress_file, d)
    /\ pc' = "idle"
    /\ blocks' = <<>>
    /\ batches' = <<>>
    /\ start_batch' = 0
    /\ batch_idx' = 0
    /\ to_translate_indices' = <<>>
    /\ translations' = <<>>
    /\ wb_pos' = 0
    /\ retry_count' = 0
    /\ tb_log' = <<>>
    /\ reply_entries' = <<>>
    /\ sent' = {}
    /\ resent' = {}
    /\ loaded' = NotLoaded
    /\ ckpt_before' = NoFile
    /\ out_before' = NoOutput
    /\ UNCHANGED <<path_vars, seg_vars, codec_vars, input_file, output_file>>

Next ==
    \/ StartRun
    \/ BeginBatch
    \/ TranslateBatch
    \/ WriteBack
    \/ SaveOpen
    \/ SaveDump
    \/ OpenOutput
    \/ WriteOutput
    \/ Cleanup
    \/ Kill
    \/ Damage

Spec == Init /\ [][Next]_vars

\* ------------------------------------------------------------------ a checkpoint found
\* A run that finds a checkpoint file on disk: load_progress takes any JSON
\* file with the keys it reads, so the blocks of the file may have translated
\* texts in any batch, whatever current_batch says.
FoundTexts == { <<"a">> }
FoundTranslated == { None, <<"U+4E2D">> }

FoundCheckpoints(file) ==
    LET fresh == FreshBlocks(Parsed(file)) IN
        {save_progress([i \in DOMAIN fresh |-> [fresh[i] EXCEPT !.translated = tr[i]]],
                       k,
                       create_smart_batches(fresh, size[1], size[2], size[3])) :
            tr \in [DOMAIN fresh -> FoundTranslated],
            k \in 0..Len(fresh),
            size \in SizeArgs}

FoundInit ==
    /\ SegIdle
    /\ CodecIdle
    /\ PathIdle
    /\ input_file \in {VttFile(RawCues(ts)) : ts \in SeqUpTo(FoundTexts, MaxBlocks) \ {<<>>}}
    /\ progress_file \in {c \in FoundCheckpoints(input_file) :
                                c.current_batch <= Len(c.batches)}
    /\ output_file = NoOutput
    /\ pc = "idle"
    /\ NoRun
    /\ NoHistory

FoundNext ==
    \/ StartRun
    \/ BeginBatch
    \/ TranslateBatch
    \/ WriteBack
    \/ SaveOpen
    \/ SaveDump
    \/ OpenOutput
    \/ WriteOutput
    \/ Cleanup

FoundSpec == FoundInit /\ [][FoundNext]_vars

\* ------------------------------------------------------------------ create_smart_batches alone
\* Block texts that end a sentence, end one inside quotes or before trailing
\* white space, or do not end one.
SegTexts ==
    { <<"a">>, <<"a", ".", " ", "\t">>, <<"a", "?", "\"">>, <<"a", ",">>, <<"U+3002">> }

SegInit ==
    /\ seg_blocks \in {FreshBlocks([i \in 1..Len(ts) |-> Cue(i, ts[i])]) :
                            ts \in SeqUpTo(SegTexts, MaxSegBlocks)}
    /\ seg_sizes \in SizeArgs
    /\ seg_batches = <<>>
    /\ seg_done = FALSE
    /\ CodecIdle
    /\ PathIdle
    /\ input_file = VttFile(<<>>)
    /\ progress_file = NoFile
    /\ output_file = NoOutput
    /\ pc = "idle"
    /\ NoRun
    /\ NoHistory

Segment ==
    /\ ~ seg_done
    /\ seg_batches' = create_smart_batches(seg_blocks, seg_sizes[1], seg_sizes[2], seg_sizes[3])
    /\ seg_done' = TRUE
    /\ UNCHANGED <<seg_blocks, seg_sizes, codec_vars, file_vars, run_vars, hist_vars,
                   path_vars>>

SegNext == Segment

SegSpec == SegInit /\ [][SegNext]_vars

\* ------------------------------------------------------------------ ten blocks
\* create_smart_batches(blocks, target_size=4, min_size=3, max_size=5) on ten
\* blocks of which the fourth alone ends a sentence.
EndingTexts == { <<"a", ".">>, <<"a", ".", "\t">>, <<"a", "?", "\"">>, <<"U+3002">> }
OpenTexts == { <<"a">>, <<"a", ",">> }

TenBlocksInit ==
    /\ seg_blocks \in {FreshBlocks([i \in 1..10 |-> Cue(i, ts[i])]) :
                            ts \in {t \in [1..10 -> EndingTexts \cup OpenTexts] :
                                       \A i \in 1..10 : t[i] \in EndingTexts <=> i = 4}}
    /\ seg_sizes = <<4, 3, 5>>
    /\ seg_batches = <<>>
    /\ seg_done = FALSE
    /\ CodecIdle
    /\ PathIdle
    /\ input_file = VttFile(<<>>)
    /\ progress_file = NoFile
    /\ output_file = NoOutput
    /\ pc = "idle"
    /\ NoRun
    /\ NoHistory

TenBlocksSpec == TenBlocksInit /\ [][SegNext]_vars

\* ------------------------------------------------------------------ translate_batch alone
\* The texts handed to translate_batch: without and with a CJK character.
TBTexts == { <<"a">>, <<"U+6587">> }

TBInit ==
    /\ SegIdle
    /\ CodecIdle
    /\ PathIdle
    /\ input_file \in {VttFile(RawCues(ts)) : ts \in SeqUpTo(TBTexts, MaxTexts)}
    /\ progress_file = NoFile
    /\ output_file = NoOutput
    /\ pc = "call"
    /\ blocks = FreshBlocks(Parsed(input_file))
    /\ batches = << <<0, Len(blocks)>> >>
    /\ start_batch = 0
    /\ batch_idx = 0
    /\ to_translate_indices = PyRange(0, Len(blocks))
    /\ translations = <<>>
    /\ wb_pos = 0
    /\ retry_count = 0
    /\ NoHistory

TBCall == TranslateBatchOn(Replies(Len(to_translate_indices)))

TBNext == TBCall

TBSpec == TBInit /\ [][TBNext]_vars

\* ------------------------------------------------------------------ conversion alone
\* vtt_to_srt.py reads a caption file with parse_subtitle and writes its blocks
\* with write_subtitle in the format of the output name; the file written is
\* the input of the next conversion.
CodecTexts ==
    { <<"a">>, <<"a", " ", "b">>, <<"a", "&nbsp;">>, <<"&nbsp;">>,
      <<"<i>", "a", "</i>">>, <<"42">> }

\* The text of a cue: one line, or two.
CodecCueLines == {<<t>> : t \in CodecTexts} \cup { << <<"a">>, <<"b">> >> }

CodecCues == UNION {[1..n -> CodecCueLines] : n \in 0..MaxCues}

\* The same file with a tab wherever it has a space.
Tabbed(file) ==
    [file EXCEPT !.lines = [i \in DOMAIN file.lines |-> Replace(file.lines[i], " ", "\t")]]

SpacedFiles ==
    {VttFile([i \in 1..Len(ls) |-> RawCue(i, ls[i])]) : ls \in CodecCues}
    \cup {SrtFile([i \in 1..Len(ls) |-> RawCue(i, ls[i])]) : ls \in CodecCues}

CodecFiles == SpacedFiles \cup {Tabbed(file) : file \in SpacedFiles}

CodecInit ==
    /\ SegIdle
    /\ PathIdle
    /\ codec_file \in CodecFiles
    /\ codec_pc = "file"
    /\ codec_docs = <<>>
    /\ codec_fmts = <<>>
    /\ input_file = VttFile(<<>>)
    /\ progress_file = NoFile
    /\ output_file = NoOutput
    /\ pc = "idle"
    /\ NoRun
    /\ NoHistory

\* detect_format and parse_subtitle on the file.
CodecParse ==
    /\ codec_pc = "file"
    /\ codec_docs' = Append(codec_docs, parse_subtitle(codec_file)[2])
    /\ codec_fmts' = IF codec_fmts = <<>> THEN <<detect_format(codec_file)>>
                     ELSE codec_fmts
    /\ codec_pc' = "parsed"
    /\ UNCHANGED <<codec_file, seg_vars, file_vars, run_vars, hist_vars, path_vars>>

\* write_subtitle of the blocks to an output name of either extension.
CodecWrite ==
    /\ codec_pc = "parsed"
    /\ Len(codec_fmts) <= MaxConversions
    /\ \E output_format \in {"vtt", "srt"} :
        /\ codec_file' = write_subtitle(codec_docs[Len(codec_docs)],
                                        <<"o">> \o Suffix(output_format), output_format)
        /\ codec_fmts' = Append(codec_fmts, output_format)
    /\ codec_pc' = "file"
    /\ UNCHANGED <<codec_docs, seg_vars, file_vars, run_vars, hist_vars, path_vars>>

CodecNext == CodecParse \/ CodecWrite

CodecSpec == CodecInit /\ [][CodecNext]_vars

\* ------------------------------------------------------------------ jobs on several inputs
\* translate_vtt_super_smart called for one input file after the other, seen
\* from the progress files: which file a job reads and writes, and which input
\* the blocks it holds were parsed from.
PathInit ==
    /\ SegIdle
    /\ CodecIdle
    /\ PathIdle
    /\ input_file = VttFile(<<>>)
    /\ progress_file = NoFile
    /\ output_file = NoOutput
    /\ pc = "idle"
    /\ NoRun
    /\ NoHistory

\* The start of a job: the blocks are those of the progress file if resume is
\* on and the file can be loaded, else they are parsed from the input.
PathStart ==
    /\ path_pc \in {"idle", "done"}
    /\ \E input_path \in PathInputs, progress_dir \in ProgressDirs, resume \in BOOLEAN :
        LET found == path_ckpts[ProgressFileOf(input_path, progress_dir)] IN
        /\ path_input' = input_path
        /\ path_dir' = progress_dir
        /\ path_blocks_of' = IF resume /\ found.of # NoInput THEN found.of ELSE input_path
    /\ path_pc' = "running"
    /\ UNCHANGED <<path_ckpts, seg_vars, codec_vars, file_vars, run_vars, hist_vars>>

\* save_progress after a batch, first half: open(progress_file, 'w') truncates
\* the progress file of the job.
PathSaveOpen ==
    /\ path_pc = "running"
    /\ path_ckpts' = [path_ckpts EXCEPT ![ProgressFileOf(path_input, path_dir)] = TornCkpt]
    /\ path_pc' = "saving"
    /\ UNCHANGED <<path_input, path_dir, path_blocks_of,
                   seg_vars, codec_vars, file_vars, run_vars, hist_vars>>

\* save_progress, second half: the blocks of the job are in its progress file.
PathSave ==
    /\ path_pc = "saving"
    /\ path_ckpts' = [path_ckpts EXCEPT ![ProgressFileOf(path_input, path_dir)] =
                          SavedCkpt(path_blocks_of)]
    /\ path_pc' = "running"
    /\ UNCHANGED <<path_input, path_dir, path_blocks_of,
                   seg_vars, codec_vars, file_vars, run_vars, hist_vars>>

\* A batch fails or the process is killed: the progress file stays as it is.
PathStop ==
    /\ path_pc \in {"running", "saving"}
    /\ path_pc' = "idle"
    /\ path_input' = NoInput
    /\ path_dir' = None
    /\ path_blocks_of' = NoInput
    /\ UNCHANGED <<path_ckpts, seg_vars, codec_vars, file_vars, run_vars, hist_vars>>

\* The job is done (its batches were saved, by this run or by the one whose
\* progress file it loaded): the progress file is removed.
PathFinish ==
    /\ path_pc = "running"
    /\ path_ckpts[ProgressFileOf(path_input, path_dir)].of # NoInput
    /\ path_ckpts' = [path_ckpts EXCEPT ![ProgressFileOf(path_input, path_dir)] = NoCkpt]
    /\ path_pc' = "done"
    /\ UNCHANGED <<path_input, path_dir, path_blocks_of, seg_vars, codec_vars, file_vars, run_vars, hist_vars>>

PathNext == PathStart \/ PathSaveOpen \/ PathSave \/ PathStop \/ PathFinish

PathSpec == PathInit /\ [][PathNext]_vars

\* ------------------------------------------------------------------ the fixed-size translator
\* subtitle_translator_resume.py: SmartVTTTranslator reads WebVTT only, cuts
\* the blocks into batches of batch_size and keeps each timing line as it is.
\* A block is [timestamp, text, translated].

\* The outer while loop of SmartVTTTranslator.parse_vtt from line i on; its
\* inner loop is that of parse_vtt.
RECURSIVE SmartVttLoop(_, _, _)
SmartVttLoop(lines, i, blks) ==
    IF i > Len(lines) THEN blks
    ELSE LET line == Strip(lines[i]) IN
         IF line = <<>> \/ line[1] \in HeaderAtoms THEN SmartVttLoop(lines, i + 1, blks)
         ELSE IF Contains(line, "-->")
         THEN LET t == VttTextLines(lines, i + 1, <<>>) IN
              SmartVttLoop(lines, t.i,
                           IF t.text_lines # <<>>
                           THEN Append(blks, [timestamp |-> line,
                                              text |-> Join(t.text_lines),
                                              translated |-> None])
                           ELSE blks)
         ELSE SmartVttLoop(lines, i + 1, blks)

\* SmartVTTTranslator.save_progress: the file when json.dump has ended; it has
\* no 'batches' key.
smart_save_progress(blks, current_batch) ==
    [exists |-> TRUE, json |-> TRUE,
     keys |-> {"timestamp", "current_batch", "total_blocks", "blocks"},
     current_batch |-> current_batch, batches |-> <<>>, blocks |-> blks]

\* SmartVTTTranslator.load_progress: (blocks, current_batch), or (None, 0).
smart_load_progress(pf) ==
    IF pf.exists /\ pf.json /\ {"blocks", "current_batch", "timestamp"} \subseteq pf.keys
    THEN [blocks_is_None |-> FALSE, blocks |-> pf.blocks,
          current_batch |-> pf.current_batch]
    ELSE [blocks_is_None |-> TRUE, blocks |-> <<>>, current_batch |-> 0]

\* SmartVTTTranslator.translate_batch on one reply of the oracle: a leading
\* fence is split off, json.loads, the entries in order.  Every exception ends
\* in "return texts"; except tells whether that branch was taken.
smart_translate_batch(texts, reply) ==
    IF reply.kind = "raise" THEN [except |-> TRUE, translations |-> texts]
    ELSE LET content == Strip(reply.content)
             inner == IF StartsWith(content, Fence)
                      THEN LET part == SplitFence(content, <<>>)[2] IN
                           IF StartsWith(part, <<"j", "s", "o", "n">>)
                           THEN SubSeq(part, 5, Len(part)) ELSE part
                      ELSE content
             parsed == json_loads(Strip(inner))
         IN  IF parsed.ok
             THEN [except |-> FALSE, translations |-> Translations(parsed.dict, texts)]
             ELSE [except |-> TRUE, translations |-> texts]

\* (start_idx, end_idx) of every batch_idx in range(total_batches).
FixedBatches(total_blocks, batch_size) ==
    [k \in 1..((total_blocks + batch_size - 1) \div batch_size) |->
        <<(k - 1) * batch_size,
          IF k * batch_size < total_blocks THEN k * batch_size ELSE total_blocks>>]

SmartTexts == { <<"a">>, <<"b">> }

\* The replies tried: an exception, an object of CJK strings as it is or in a
\* fence, and an object that does not parse.
SmartReplies(n) ==
    {[kind |-> "raise", api |-> TRUE, entries |-> <<>>, content |-> <<>>]}
    \cup ContentReplies({"direct", "fenced", "badjson"}, {Str(<<"U+4E2D">>)}, n)

SmartInit ==
    /\ SegIdle
    /\ CodecIdle
    /\ PathIdle
    /\ input_file \in {VttFile(RawCues(ts)) : ts \in SeqUpTo(SmartTexts, MaxBlocks)}
    /\ progress_file = NoFile
    /\ output_file = NoOutput
    /\ pc = "idle"
    /\ NoRun
    /\ NoHistory

\* translate_vtt_smart up to the loop.  A job that is done is not run again,
\* and resume is only switched off where no checkpoint is there to be ignored.
SmartStartRun ==
    /\ pc \in Stopped \ {"done"}
    /\ \E resume \in BOOLEAN, batch_size \in 1..MaxSize,
          fresh \in {SmartVttLoop(input_file.lines, 1, <<>>)} :
        /\ resume \/ smart_load_progress(progress_file).blocks_is_None
        /\ LET lp == IF resume THEN smart_load_progress(progress_file)
                     ELSE smart_load_progress(NoFile)
               blks == IF lp.blocks_is_None THEN fresh ELSE lp.blocks
           IN  /\ loaded' = [resume |-> resume,
                             ckpt |-> IF ~ resume THEN "unused"
                                      ELSE IF lp.blocks_is_None THEN "absent" ELSE "ok",
                             k |-> lp.current_batch]
               /\ IF lp.blocks_is_None /\ fresh = <<>>
                  THEN /\ pc' = "empty"
                       /\ blocks' = <<>> /\ batches' = <<>>
                       /\ start_batch' = 0 /\ batch_idx' = 0
                  ELSE /\ pc' = "loop"
                       /\ blocks' = blks
                       /\ batches' = FixedBatches(Len(blks), batch_size)
                       /\ start_batch' = lp.current_batch
                       /\ batch_idx' = lp.current_batch
    /\ to_translate_indices' = <<>>
    /\ translations' = <<>>
    /\ wb_pos' = 0
    /\ retry_count' = 0
    /\ tb_log' = <<>>
    /\ reply_entries' = <<>>
    /\ sent' = {}
    /\ resent' = {}
    /\ ckpt_before' = progress_file
    /\ out_before' = output_file
    /\ UNCHANGED <<path_vars, seg_vars, codec_vars, file_vars>>

\* The head of one iteration: to_translate_indices holds positions within the
\* batch; a batch with nothing to translate is skipped.
SmartBeginBatch ==
    /\ pc = "loop"
    /\ batch_idx < Len(batches)
    /\ LET start_idx == batches[batch_idx + 1][1]
           end_idx == batches[batch_idx + 1][2]
           todo == SelectSeq(PyRange(0, end_idx - start_idx),
                             LAMBDA i : ~ Truthy(blocks[start_idx + i + 1].translated))
       IN  IF todo = <<>>
           THEN /\ batch_idx' = batch_idx + 1
                /\ UNCHANGED <<pc, to_translate_indices, ckpt_before>>
           ELSE /\ pc' = "call"
                /\ to_translate_indices' = todo
                /\ ckpt_before' = progress_file
                /\ UNCHANGED batch_idx
    /\ UNCHANGED <<path_vars, seg_vars, codec_vars, file_vars, blocks, batches,
                   start_batch, translations, wb_pos, retry_count, tb_log,
                   reply_entries, sent, resent, loaded, out_before>>

\* translate_batch and the zip loop that stores what it returned; tb_log tells
\* of each call of the run its batch and whether the oracle failed.
SmartTranslateBatch ==
    /\ pc = "call"
    /\ LET start_idx == batches[batch_idx + 1][1]
           texts == [j \in DOMAIN to_translate_indices |->
                        blocks[start_idx + to_translate_indices[j] + 1].text]
       IN \E reply \in SmartReplies(Len(to_translate_indices)) :
            LET r == smart_translate_batch(texts, reply)
                n == ZipLen(to_translate_indices, r.translations)
            IN  /\ translations' = r.translations
                /\ tb_log' = Append(tb_log, [batch |-> batch_idx, except |-> r.except])
                /\ sent' = sent \cup {start_idx + to_translate_indices[j] : j \in 1..n}
                /\ blocks' = [i \in DOMAIN blocks |->
                      IF \E j \in 1..n : i = start_idx + to_translate_indices[j] + 1
                      THEN [blocks[i] EXCEPT !.translated =
                              r.translations[CHOOSE j \in 1..n :
                                  i = start_idx + to_translate_indices[j] + 1]]
                      ELSE blocks[i]]
                /\ wb_pos' = n
    /\ pc' = "save"
    /\ UNCHANGED <<path_vars, seg_vars, codec_vars, file_vars, batches, start_batch,
                   batch_idx, to_translate_indices, retry_count, reply_entries,
                   resent, loaded, ckpt_before, out_before>>

\* save_progress, second half: json.dump ends; the loop goes on.
SmartSaveDump ==
    /\ pc = "dump"
    /\ progress_file' = smart_save_progress(blocks, batch_idx + 1)
    /\ pc' = "loop"
    /\ batch_idx' = batch_idx + 1
    /\ to_translate_indices' = <<>>
    /\ translations' = <<>>
    /\ wb_pos' = 0
    /\ UNCHANGED <<path_vars, seg_vars, codec_vars, input_file, output_file, blocks,
                   batches, start_batch, retry_count, hist_vars>>

\* The calls of f.write in the with block after the loop: three for the
\* header, then for each block the timing line as it was read, and the text
\* with the empty line after it.  Always WebVTT.
RECURSIVE SmartCueWrites(_)
SmartCueWrites(blks) ==
    IF blks = <<>> THEN <<>>
    ELSE << << blks[1].timestamp >>,
            << IF Truthy(blks[1].translated) THEN blks[1].translated ELSE blks[1].text,
               <<>> >> >> \o SmartCueWrites(Tail(blks))

SmartWrites(blks) ==
    << << <<"WEBVTT">> >>,
       << <<"Kind:", " ", "captions">> >>,
       << <<"Language:", " ", "zh">>, <<>> >> >> \o SmartCueWrites(blks)

\* The output file when the with block has ended.
SmartWritten(blks, input_name) ==
    [exists |-> TRUE, name |-> OutputName(input_name, "vtt"),
     lines |-> FileLines(SmartWrites(blks))]

\* After the loop: open(output_path, 'w') leaves the output file empty.
SmartOpenOutput ==
    /\ pc = "loop"
    /\ batch_idx >= Len(batches)
    /\ output_file' = OpenedOutput(OutputName(input_file.name, "vtt"))
    /\ pc' = "write"
    /\ UNCHANGED <<path_vars, seg_vars, codec_vars, input_file, progress_file, blocks,
                   batches, start_batch, batch_idx, to_translate_indices, translations,
                   wb_pos, retry_count, hist_vars>>

\* The writes of the with block and the close of the output file.
SmartWriteOutput ==
    /\ pc = "write"
    /\ output_file' = SmartWritten(blocks, input_file.name)
    /\ pc' = "cleanup"
    /\ UNCHANGED <<path_vars, seg_vars, codec_vars, input_file, progress_file, blocks,
                   batches, start_batch, batch_idx, to_translate_indices, translations,
                   wb_pos, retry_count, hist_vars>>

\* A kill inside the with block, before its last call of f.write, leaves the
\* output file with the calls made so far: it may end inside the header or
\* inside a cue, or be empty.
SmartKill ==
    KillLeaving(IF pc = "write"
                THEN LET writes == SmartWrites(blocks) IN
                     {[exists |-> TRUE, name |-> OutputName(input_file.name, "vtt"),
                       lines |-> FileLines(SubSeq(writes, 1, k))] :
                          k \in 0..(Len(writes) - 1)}
                ELSE {output_file})

\* The opening of the progress file, its removal and the end of the process
\* are those of the other translator.
SmartNext ==
    \/ SmartStartRun
    \/ SmartBeginBatch
    \/ SmartTranslateBatch
    \/ SaveOpen
    \/ SmartSaveDump
    \/ SmartOpenOutput
    \/ SmartWriteOutput
    \/ Cleanup
    \/ SmartKill

SmartSpec == SmartInit /\ [][SmartNext]_vars

\* ================================================================== properties
BatchSize(b) == b[2] - b[1]

\* C5: the batches create_smart_batches returns are half-open ranges in
\* ascending order, each starting where the one before ends, the first at 0
\* and the last ending at len(blocks), so that every block index lies in
\* exactly one batch.
C5_BatchesPartition ==
    seg_done =>
        LET n == Len(seg_blocks)
            b == seg_batches
        IN  /\ \A i \in DOMAIN b : b[i][1] < b[i][2]
            /\ \A i \in 1..(Len(b) - 1) : b[i + 1][1] = b[i][2]
            /\ (n = 0) = (b = <<>>)
            /\ n > 0 => b[1][1] = 0 /\ b[Len(b)][2] = n
            /\ \A idx \in 0..(n - 1) :
                    Cardinality({i \in DOMAIN b : b[i][1] <= idx /\ idx < b[i][2]}) = 1

\* Three batches or more, the last one a remainder the loop did not close.
C5_Witness ==
    /\ seg_done
    /\ Len(seg_batches) >= 3
    /\ ~ is_natural_breakpoint(seg_blocks[Len(seg_blocks)].text)
    /\ BatchSize(seg_batches[Len(seg_batches)]) < seg_sizes[3]

\* C6: no batch is larger than max_size, every batch but the last has at least
\* min_size blocks and ends at a natural breakpoint or at max_size, and what is
\* left after the last such batch, however short, is the final batch.
C6_BatchSizes ==
    seg_done =>
        LET n == Len(seg_blocks)
            b == seg_batches
            min_size == seg_sizes[2]
            max_size == seg_sizes[3]
        IN  /\ \A i \in DOMAIN b : BatchSize(b[i]) >= 1 /\ BatchSize(b[i]) <= max_size
            /\ \A i \in 1..(Len(b) - 1) :
                    /\ BatchSize(b[i]) >= min_size
                    /\ \/ is_natural_breakpoint(seg_blocks[b[i][2]].text)
                       \/ BatchSize(b[i]) = max_size
            /\ n > 0 => b[Len(b)][2] = n

\* A remainder shorter than min_size is the final batch, after a batch of
\* max_size blocks that was closed at no breakpoint.
C6_Witness ==
    /\ seg_done
    /\ Len(seg_batches) >= 2
    /\ BatchSize(seg_batches[Len(seg_batches)]) < seg_sizes[2]
    /\ \E i \in 1..(Len(seg_batches) - 1) :
            /\ BatchSize(seg_batches[i]) = seg_sizes[3]
            /\ ~ is_natural_breakpoint(seg_blocks[seg_batches[i][2]].text)

\* translate_batch has raised, every reply having been of these kinds.
RaisedAfterOnly(kinds) ==
    /\ pc = "failed"
    /\ \A i \in DOMAIN tb_log : tb_log[i] \in kinds

\* C3 as the spec states it: an oracle whose replies are always malformed JSON
\* is called exactly max_retries times before translate_batch raises.
C3_ExactlyMaxRetriesCalls ==
    RaisedAfterOnly({"decode_error"}) => Len(tb_log) = max_retries

\* C3, amended: an oracle whose every reply holds a JSON object text that
\* json.loads rejects is called exactly max_retries + 1 times, once and then
\* max_retries retries, before translate_batch raises.
C3_MaxRetriesPlusOneCalls ==
    RaisedAfterOnly({"decode_error"}) => Len(tb_log) = max_retries + 1

C3_Witness ==
    /\ RaisedAfterOnly({"decode_error"})
    /\ retry_count = max_retries
    /\ Len(to_translate_indices) = MaxTexts

\* C4 as the spec states it: a well-formed but implausible reply is handled
\* like a reply that does not parse, so translate_batch raises on either only
\* when the retries are used up.
C4_ImplausibleRetriedLikeMalformed ==
    (pc = "failed" /\ tb_log[Len(tb_log)] \in {"decode_error", "implausible"})
        => Len(tb_log) = max_retries + 1

\* C4, amended: a well-formed reply in which fewer than half the entries have
\* a CJK character makes translate_batch raise at once, whatever the retry
\* count: it is never followed by another call, while a reply that does not
\* parse is, as long as retries are left.
C4_ImplausibleRaisesAtOnce ==
    /\ \A i \in DOMAIN tb_log :
            tb_log[i] = "implausible" => i = Len(tb_log) /\ pc = "failed"
    /\ \A i \in DOMAIN tb_log :
            (tb_log[i] = "decode_error" /\ i <= max_retries)
                => (i < Len(tb_log) \/ pc = "call")

\* An implausible first reply has ended translate_batch after one call.
C4_Witness ==
    /\ pc = "failed"
    /\ tb_log = <<"implausible">>
    /\ retry_count = 0
    /\ Len(to_translate_indices) = MaxTexts

\* The texts handed to translate_batch by the caller.
CallTexts ==
    [j \in DOMAIN to_translate_indices |-> blocks[to_translate_indices[j] + 1].text]

\* What the try block decodes from a reply: the object json.loads makes of
\* the payload that extract_json finds, if both succeed.  The try block reads
\* the texts and the reply only, not retry_count, so what it does with a reply
\* is stated at the first call of translate_batch.
Payload(reply) ==
    LET json_content == extract_json(Strip(reply.content)) IN
        IF json_content = NoJson \/ json_content = <<>> THEN JSONDecodeError
        ELSE json_loads(json_content)

\* The entries of that object under the keys str(0), ..., str(n - 1).
PayloadEntries(reply, n) ==
    LET parsed == Payload(reply) IN
        [i \in 1..n |->
            IF PyStr(i - 1) \in DOMAIN parsed.dict THEN parsed.dict[PyStr(i - 1)]
            ELSE Missing]

\* The payload found in the reply is the whole object the oracle wrote.
WholeObject(reply) ==
    extract_json(Strip(reply.content)) = Wrap("direct", Body(reply.entries, 1))

\* C7: when translate_batch returns, its result is as long as its input and
\* element i is the entry under the key str(i) of the object decoded from the
\* oracle's reply; where the payload is the whole object the oracle wrote,
\* that is the entry the oracle gave for input i.
C7_SameLengthAndOrder ==
    /\ pc = "writeback" =>
            /\ Len(translations) = Len(to_translate_indices)
            /\ Len(reply_entries) = Len(to_translate_indices)
    /\ (pc = "call" /\ retry_count = 0) =>
            \A r \in ContentReplies(Shapes, EntryValues, Len(to_translate_indices)) :
                LET t == TryBlock(CallTexts, r)
                    e == PayloadEntries(r, Len(CallTexts))
                IN  t.exc = "" =>
                        /\ Len(t.translations) = Len(CallTexts)
                        /\ \A i \in DOMAIN e :
                                e[i].t = "str" => t.translations[i] = e[i].s
                        /\ WholeObject(r) =>
                                \A i \in DOMAIN e :
                                    r.entries[i].t = "str"
                                        => t.translations[i] = r.entries[i].s

\* Two inputs, two different entries, returned in the order of the inputs.
C7_Witness ==
    /\ pc = "writeback"
    /\ Len(translations) = 2
    /\ reply_entries[1].t = "str"
    /\ reply_entries[2].t = "str"
    /\ translations[1] # translations[2]
    /\ translations[1] = reply_entries[1].s

\* The block indices of the batches from batch k (0-based) on.
BlocksFrom(bts, k) ==
    UNION {{idx \in 0..(bts[b][2] - 1) : idx >= bts[b][1]} : b \in (k + 1)..Len(bts)}

ResumedFromCheckpoint == loaded.resume /\ loaded.ckpt = "ok"

\* C1: a run that resumes from a checkpoint recording batches 0..k-1 as
\* resolved calls the oracle only for blocks of batches k..n-1, and never for a
\* block whose translated text is set.
C1_ResumeCallsOnlyUnresolved ==
    ResumedFromCheckpoint =>
        /\ sent \subseteq BlocksFrom(batches, loaded.k)
        /\ resent = {}

\* A resumed run has called the oracle, a resolved batch holding a block whose
\* translation is the empty string.
C1_Witness ==
    /\ ResumedFromCheckpoint
    /\ loaded.k >= 1
    /\ sent # {}
    /\ \E i \in DOMAIN blocks : blocks[i].translated = <<>>

\* C2: when translate_batch raises for batch i the run ends without writing
\* the output file, and the checkpoint file is what it was when batch i began:
\* the one saved after batch i - 1 if this run resolved a batch before.
C2_FailureLeavesFilesAlone ==
    pc = "failed" =>
        /\ output_file = out_before
        /\ progress_file = ckpt_before
        /\ batch_idx > start_batch =>
                /\ CkptKind(progress_file) = "ok"
                /\ progress_file.current_batch = batch_idx

\* The second batch or a later one has failed after all its retries.
C2_Witness ==
    /\ pc = "failed"
    /\ batch_idx >= 1
    /\ batch_idx > start_batch
    /\ retry_count = max_retries
    /\ CkptKind(progress_file) = "ok"

\* C8: a readable checkpoint whose next batch is k has a translated text for
\* every block of batches 0..k-1, and save_progress runs only when every block
\* of the current batch has been written back.
C8_CheckpointIsResolvedPrefix ==
    /\ CkptKind(progress_file) = "ok" =>
            \A idx \in BlocksFrom(progress_file.batches, 0)
                        \ BlocksFrom(progress_file.batches, progress_file.current_batch) :
                progress_file.blocks[idx + 1].translated # None
    /\ pc \in {"save", "dump"} =>
            \A idx \in BlocksFrom(batches, batch_idx) \ BlocksFrom(batches, batch_idx + 1) :
                blocks[idx + 1].translated # None

\* A batch of two blocks is half written back while a checkpoint of the
\* batches before it is on disk.
C8_Witness ==
    /\ pc = "writeback"
    /\ wb_pos = 1
    /\ Len(to_translate_indices) >= 2
    /\ CkptKind(progress_file) = "ok"
    /\ progress_file.current_batch = batch_idx
    /\ batch_idx >= 1

\* The process is between two writes of the checkpoint, a batch in flight.
BetweenWrites ==
    \/ pc \in {"call", "writeback", "save"}
    \/ pc = "loop" /\ batch_idx < Len(batches)

\* C9: at every point between two writes of the checkpoint, what a resumed
\* run would load differs from the memory of the process only inside the batch
\* in flight, and that run starts at this batch (where no usable checkpoint is
\* on disk, the batch in flight is the first and no other block is translated);
\* a killed process leaves a checkpoint with every earlier batch translated;
\* and a resumed run calls the oracle only for unresolved blocks from its first
\* batch on.
C9_KillLosesOnlyInFlightBatch ==
    /\ BetweenWrites =>
            LET lp == load_progress(progress_file)
                in_flight == BlocksFrom(batches, batch_idx) \ BlocksFrom(batches, batch_idx + 1)
                others == {idx \in 0..(Len(blocks) - 1) : idx \notin in_flight}
            IN  IF lp.blocks_is_None \/ lp.batches_is_None
                THEN /\ batch_idx = 0
                     /\ \A idx \in others : blocks[idx + 1].translated = None
                ELSE /\ lp.batches = batches
                     /\ StartBatch(lp) = batch_idx
                     /\ Len(lp.blocks) = Len(blocks)
                     /\ \A idx \in others :
                            lp.blocks[idx + 1].translated = blocks[idx + 1].translated
    /\ (pc = "killed" /\ CkptKind(progress_file) = "ok") =>
            \A idx \in 0..(Len(progress_file.blocks) - 1) :
                (progress_file.blocks[idx + 1].translated # None)
                    = (idx \notin BlocksFrom(progress_file.batches,
                                             progress_file.current_batch))
    /\ ResumedFromCheckpoint =>
            \A idx \in sent :
                /\ loaded.k < Len(batches)
                /\ idx >= batches[loaded.k + 1][1]
                /\ idx \notin resent

\* The process was killed between two writes, the second batch or a later one
\* in flight: the checkpoint on disk is whole and not at its end.
C9_Witness ==
    /\ pc = "killed"
    /\ CkptKind(progress_file) = "ok"
    /\ progress_file.current_batch >= 1
    /\ progress_file.current_batch < Len(progress_file.batches)
    /\ ~ output_file.exists

\* C10: a run that finds a checkpoint file it cannot use (not JSON, or the
\* blocks, the next batch index or the batch list missing) does not raise and
\* starts at batch 0 with the blocks parsed from the input.
C10_MalformedCheckpointLikeAbsent ==
    (loaded.resume /\ loaded.ckpt = "malformed") =>
        /\ pc # "raised"
        /\ start_batch = 0
        /\ (pc = "loop" /\ batch_idx = 0) => blocks = FreshBlocks(Parsed(input_file))

\* The output file holds what the blocks in memory give.
OutputWritten ==
    output_file = WrittenOutput(blocks, input_file.name, detect_format(input_file))

\* C11: the checkpoint file is removed only by a run that has written its
\* output file in full, that step is followed by nothing but the return, and
\* a run that has returned success has left no checkpoint file.
C11_CheckpointRemovedLast ==
    /\ [][(progress_file.exists /\ ~ progress_file'.exists)
            => (pc = "cleanup" /\ OutputWritten /\ pc' = "done"
                /\ output_file' = output_file)]_vars
    /\ [](pc = "done" => (~ progress_file.exists /\ OutputWritten))
    /\ [][pc = "done" => UNCHANGED <<pc, file_vars>>]_vars

\* A run of two batches or more has returned success, a checkpoint having been
\* on disk when its last batch began.
C11_Witness ==
    /\ pc = "done"
    /\ Len(batches) >= 2
    /\ ckpt_before.exists
    /\ ~ progress_file.exists
    /\ output_file.exists

\* What parse_subtitle gives for each input file of the pipeline.
ParsedInput == [file \in InputFiles |-> Parsed(file)]

\* The cues the output is to hold: those parsed from the input, in their order
\* and with their timestamps, each with the translation its block has, or with
\* its source text where the block has none (None or the empty string).
ExpectedCues ==
    LET doc == ParsedInput[input_file] IN
        [i \in 1..Len(doc) |->
            [start_time |-> doc[i].start_time, end_time |-> doc[i].end_time,
             text |-> IF blocks[i].translated \notin {None, <<>>}
                      THEN blocks[i].translated ELSE doc[i].text]]

\* The blocks in memory without their translations.
SourceOf(blks) ==
    [i \in 1..Len(blks) |->
        [text |-> blks[i].text, start_time |-> blks[i].start_time,
         end_time |-> blks[i].end_time]]

\* C12: the output written on success holds one cue per block of the document,
\* in the original order and with the original timestamps, with the translated
\* text where the block has one and the source text otherwise; and while a run
\* works on the blocks, through translation, checkpoint save and checkpoint
\* load, their source text and timestamps stay those parsed from the input.
C12_OutputOneCuePerBlock ==
    /\ pc \in Running \cup {"done"} => SourceOf(blocks) = ParsedInput[input_file]
    /\ pc \in {"cleanup", "done"} =>
        /\ Len(blocks) = Len(ParsedInput[input_file])
        /\ output_file.exists
        /\ output_file.lines
             = write_subtitle(ExpectedCues, output_file.name,
                              detect_format(input_file)).lines

\* A resumed run has returned success with one block translated and another
\* left with its source text.
C12_Witness ==
    /\ pc = "done"
    /\ loaded.resume /\ loaded.ckpt = "ok"
    /\ \E i \in DOMAIN blocks : Truthy(blocks[i].translated)
    /\ \E i \in DOMAIN blocks : ~ Truthy(blocks[i].translated)

\* The text of the output file under a name that tells no format.
OutputText == [name |-> <<"o", ".", "t", "x", "t">>, lines |-> output_file.lines]

\* C13: the output file of a successful run is in the dialect of the input
\* file of that run, whether the run was fresh or resumed from a checkpoint:
\* its text is detected as that dialect and parses in it to the same number
\* of cues as the input.
C13_OutputInInputDialect ==
    pc \in {"cleanup", "done"} =>
        /\ output_file.exists
        /\ detect_format(input_file) \in {"vtt", "srt"}
        /\ detect_format(OutputText) = detect_format(input_file)
        /\ Len(parse_subtitle(OutputText)[2]) = Len(ParsedInput[input_file])

\* A run resumed from a checkpoint over a SubRip input has returned success.
C13_Witness ==
    /\ pc = "done"
    /\ detect_format(input_file) = "srt"
    /\ loaded.resume /\ loaded.ckpt = "ok"
    /\ Len(batches) >= 2
    /\ loaded.k > 0

\* C14: for a well-formed caption file in either dialect, parse_subtitle, then
\* write_subtitle in the same dialect, then parse_subtitle again gives the same
\* block sequence: same count, same timestamps, same text.
C14_RoundTripSameDialect ==
    (Len(codec_docs) >= 2 /\ codec_fmts[2] = codec_fmts[1]) =>
        codec_docs[2] = codec_docs[1]

\* C15: writing a parsed document in the other dialect, parsing, writing in
\* the first dialect and parsing again keeps the block count and every
\* block's text and timestamps.
C15_ThereAndBackPreserves ==
    (/\ Len(codec_docs) = 3
     /\ Len(codec_fmts) = 3
     /\ codec_fmts[2] # codec_fmts[1]
     /\ codec_fmts[3] = codec_fmts[1]) =>
        codec_docs[3] = codec_docs[1]

\* C16: ten blocks, target_size 4, min_size 3, max_size 5, the fourth block the
\* only one that ends a sentence: create_smart_batches returns exactly three
\* batches, the first [0,4), the second starting at 4, the last ending at 10.
C16_TenBlocksThreeBatches ==
    (/\ seg_done
     /\ Len(seg_blocks) = 10
     /\ seg_sizes = <<4, 3, 5>>
     /\ \A i \in 1..10 : seg_blocks[i].text \in EndingTexts <=> i = 4) =>
        /\ Len(seg_batches) = 3
        /\ seg_batches[1] = <<0, 4>>
        /\ seg_batches[2][1] = 4
        /\ seg_batches[3][2] = 10

\* The scenario has been segmented; its second batch is closed by max_size.
C16_Witness ==
    /\ seg_done
    /\ Len(seg_blocks) = 10
    /\ seg_sizes = <<4, 3, 5>>
    /\ \A i \in 1..10 : seg_blocks[i].text \in EndingTexts <=> i = 4
    /\ seg_batches = << <<0, 4>>, <<4, 9>>, <<9, 10>> >>

\* C17: when extract_json gives nothing, translate_batch calls the oracle
\* again, and raises on such a reply only when the retries are used up.  The
\* code raises ValueError on the first such reply, with retries left.
C17_NoJsonRetriedUntilBudget ==
    (pc = "failed" /\ tb_log # <<>> /\ tb_log[Len(tb_log)] = "no_json")
        => retry_count = max_retries

\* The replies from which the try block decodes an object whose entries are
\* strings.
StringReplies ==
    {r \in ContentReplies(Shapes, {Missing} \cup {Str(t) : t \in OracleTexts},
                          Len(to_translate_indices)) :
        Payload(r).ok}

\* Those of them whose object lacks the entry of one input or more.
LackingReplies ==
    {r \in StringReplies :
        \E i \in DOMAIN to_translate_indices :
            PayloadEntries(r, Len(to_translate_indices))[i] = Missing}

\* The entries decoded from a reply, for the texts of the call.
CallEntries(r) == PayloadEntries(r, Len(to_translate_indices))

\* The entries of a reply with the source text in the place of a missing one.
WithSourceForMissing(texts, entries) ==
    [i \in DOMAIN texts |-> IF entries[i] = Missing THEN texts[i] ELSE entries[i].s]

\* C18 as the spec states it: on a structurally valid reply that lacks
\* entries, translate_batch returns a result, the source text standing for
\* each missing entry, and does not raise, however many entries are missing.
C18_MissingEntriesNeverRaise ==
    (pc = "call" /\ retry_count = 0) =>
        \A r \in LackingReplies :
            LET t == TryBlock(CallTexts, r) IN
                /\ t.exc = ""
                /\ t.translations = WithSourceForMissing(CallTexts, CallEntries(r))

\* C18, amended: the source text stands for each missing entry; the result is
\* returned if at least half of its entries, those taken from the source
\* included, have a CJK character, and ValueError is raised otherwise.
C18_MissingFallBackThenGate ==
    /\ (pc = "call" /\ retry_count = 0) =>
        \A r \in LackingReplies :
            LET t == TryBlock(CallTexts, r)
                e == WithSourceForMissing(CallTexts, CallEntries(r))
            IN  IF 2 * Cardinality({i \in DOMAIN e : has_chinese(e[i])}) >= Len(e)
                THEN t.exc = "" /\ t.translations = e
                ELSE t.exc = "ValueError" /\ t.outcome = "implausible"
    /\ pc = "writeback" =>
        \A i \in DOMAIN reply_entries :
            reply_entries[i] = Missing => translations[i] = CallTexts[i]

\* translate_batch has returned two entries: the first is the source text of
\* an input the reply had no entry for, the second a translation.
C18_Witness ==
    /\ pc = "writeback"
    /\ Len(translations) = 2
    /\ reply_entries[1] = Missing
    /\ translations[1] = CallTexts[1]
    /\ ~ has_chinese(translations[1])
    /\ reply_entries[2].t = "str"
    /\ has_chinese(translations[2])

\* How many entries of a result have a CJK character.
WithChinese(trans) == Cardinality({i \in DOMAIN trans : has_chinese(trans[i])})

\* C19: translate_batch returns a result only when at least half of its
\* entries have a CJK character; a result of which exactly half do is
\* returned, one of which fewer than half do never is.
C19_ReturnedIffHalfChinese ==
    /\ pc = "writeback" => 2 * WithChinese(translations) >= Len(translations)
    /\ (pc = "call" /\ retry_count = 0) =>
        \A r \in StringReplies :
            LET t == TryBlock(CallTexts, r)
                e == WithSourceForMissing(CallTexts, CallEntries(r))
            IN  /\ 2 * WithChinese(e) = Len(e) => (t.exc = "" /\ t.translations = e)
                /\ 2 * WithChinese(e) < Len(e) => t.exc # ""

\* translate_batch has returned a result of two entries, both from the reply,
\* of which exactly one has a CJK character.
C19_Witness ==
    /\ pc = "writeback"
    /\ Len(translations) = 2
    /\ reply_entries[1].t = "str"
    /\ reply_entries[2].t = "str"
    /\ WithChinese(translations) = 1

\* The block that is the c-th of a batch starting at (0-based) block s may
\* close the batch: it ends a sentence, or the count has reached max_size.
MayClose(s, c) ==
    \/ is_natural_breakpoint(seg_blocks[s + c].text)
    \/ c >= seg_sizes[3]

\* C20: each batch is closed at the first block, from the one at which the
\* count reaches min_size on, that ends a sentence or brings the count to
\* max_size; the next batch starts at the following block with the count at
\* zero.  Only the last batch may end, with the blocks, before such a block.
C20_ClosedAtFirstBreakpointOrMax ==
    seg_done =>
        \A k \in DOMAIN seg_batches :
            LET s == seg_batches[k][1]
                size == seg_batches[k][2] - s
            IN  /\ s = (IF k = 1 THEN 0 ELSE seg_batches[k - 1][2])
                /\ size >= 1
                /\ \A c \in 1..(size - 1) : c >= seg_sizes[2] => ~ MayClose(s, c)
                /\ IF k < Len(seg_batches)
                   THEN size >= seg_sizes[2] /\ MayClose(s, size)
                   ELSE seg_batches[k][2] = Len(seg_blocks)

\* With min_size 1 and max_size 3 the first block ends no sentence and the
\* second does: the first batch is closed there, and the rest is one batch.
C20_Witness ==
    /\ seg_done
    /\ seg_sizes[2] = 1
    /\ seg_sizes[3] = 3
    /\ Len(seg_blocks) = 4
    /\ ~ is_natural_breakpoint(seg_blocks[1].text)
    /\ is_natural_breakpoint(seg_blocks[2].text)
    /\ seg_batches = << <<0, 2>>, <<2, 4>> >>

\* C21 as the spec states it: the output is written only when every block has
\* a translated text that the filter of the loop counts as translated.
C21_OutputOnlyWhenAllTranslated ==
    pc \in {"write", "cleanup", "done"} =>
        \A i \in DOMAIN blocks : Truthy(blocks[i].translated)

\* The step that opens the output file, and with it begins to write it.
OpensOutput == pc # "write" /\ pc' = "write"

\* The strings the oracle gives as entries of its replies.
OracleStrings == {v.s : v \in {w \in PipelineValues : w.t = "str"}}

\* translate_batch has returned and no pair is stored yet: each translation is
\* the entry the reply gives for the text or, where the reply lacks the entry,
\* the source text of the block (translated_dict.get(str(idx), texts[idx])).
FromReplyOrSource ==
    (pc = "writeback" /\ wb_pos = 0) =>
        /\ Len(reply_entries) = Len(translations)
        /\ \A k \in DOMAIN translations :
                translations[k] =
                    IF reply_entries[k] = Missing
                    THEN blocks[to_translate_indices[k] + 1].text
                    ELSE reply_entries[k].s

\* During a run a translated field changes only when the zip loop stores the
\* next translation into the block of its index.
StoredByZipLoop ==
    (pc \in Running /\ pc' \in Running) =>
        \A i \in DOMAIN blocks :
            blocks'[i].translated # blocks[i].translated =>
                /\ pc = "writeback"
                /\ i = to_translate_indices[wb_pos + 1] + 1
                /\ blocks'[i].translated = translations[wb_pos + 1]

\* C21, amended: the output is written only after the loop has passed every
\* batch of the batch list, every block then holding in its translated field a
\* string: the entry the oracle's reply gave for the block or, where the reply
\* lacked the entry, the source text of the block.  The string may be empty,
\* and the block is then still counted as untranslated.
C21_OutputOnlyAfterAllBatches ==
    /\ [][output_file' # output_file => (pc = "write" \/ OpensOutput)]_vars
    /\ [][OpensOutput =>
            /\ pc = "loop"
            /\ batch_idx >= Len(batches)
            /\ \A i \in DOMAIN blocks : blocks[i].translated # None
            /\ \A i \in DOMAIN blocks :
                    \E b \in DOMAIN batches :
                        batches[b][1] <= i - 1 /\ i - 1 < batches[b][2]]_vars
    /\ [](pc \in {"write", "cleanup", "done"} =>
            \A i \in DOMAIN blocks :
                blocks[i].translated \in OracleStrings \cup {blocks[i].text})
    /\ []FromReplyOrSource
    /\ [][StoredByZipLoop]_vars

\* A run of two batches has returned success with a block that holds its own
\* source text, stored for an entry the reply lacked, beside a block that has
\* a translation.
C21_Witness ==
    /\ pc = "done"
    /\ \E i \in DOMAIN blocks :
            blocks[i].translated = blocks[i].text /\ blocks[i].text # <<>>
    /\ \E i \in DOMAIN blocks : has_chinese(blocks[i].translated)
    /\ Len(batches) >= 2

\* C23: a run resumed from a checkpoint works on the batch list stored in the
\* checkpoint, whatever size arguments it was given, and the list stays the
\* same for the whole run.
C23_ResumeKeepsStoredBatches ==
    /\ [][(pc \in Stopped /\ pc' \in Running /\ loaded'.resume /\ loaded'.ckpt = "ok")
            => (batches' = progress_file.batches /\ blocks' = progress_file.blocks)]_vars
    /\ [][(pc \in Running /\ pc' \in Running) => batches' = batches]_vars

\* A resumed run is in its loop with the stored batch list, which is not the
\* list that some size arguments of the run would give.
C23_Witness ==
    /\ pc = "loop"
    /\ loaded.resume /\ loaded.ckpt = "ok"
    /\ batches = progress_file.batches
    /\ Len(batches) >= 2
    /\ \E size \in SizeArgs :
            create_smart_batches(FreshBlocks(Parsed(input_file)),
                                 size[1], size[2], size[3]) # batches

\* The blocks a run would start from if it were started now with resume on.
ResumedBlocks ==
    LET lp == load_progress(progress_file) IN
        IF lp.blocks_is_None THEN FreshBlocks(Parsed(input_file)) ELSE lp.blocks

\* A step of a run leaves every translation that is set as it is.
KeepsSetTranslations ==
    \A i \in DOMAIN blocks :
        blocks[i].translated # None => blocks'[i].translated = blocks[i].translated

\* Whatever the checkpoint held when the batch in work began is what a resumed
\* run would start from, should the process die now.
ResumeWouldKeep ==
    \A i \in DOMAIN ckpt_before.blocks :
        ckpt_before.blocks[i].translated # None =>
            /\ i \in DOMAIN ResumedBlocks
            /\ ResumedBlocks[i].translated = ckpt_before.blocks[i].translated

\* C24: a translation that is set is not cleared or replaced by a later step
\* of the run, and a translation that a checkpoint holds is what a later
\* resumed run starts from, at whatever point the run is ended.
C24_SetTranslationNeverLost ==
    /\ [][(pc \in Running /\ pc' \in Running) => KeepsSetTranslations]_vars
    /\ []((pc \in Running /\ CkptKind(ckpt_before) = "ok") => ResumeWouldKeep)

\* The output file a process leaves that ends after open(output_path, 'w'):
\* a part of the output of these blocks, or all of it.
OutputOf(blks) == WrittenOutput(blks, input_file.name, detect_format(input_file))
LeftOutputs(blks) ==
    PartialOutputs(blks, input_file.name, detect_format(input_file)) \cup {OutputOf(blks)}

\* C25: an output file next to a job that is not done was left by a process
\* that ended inside write_subtitle or between the writing of the output and
\* the removal of the checkpoint.  The checkpoint then holds every batch as
\* resolved and the blocks the output is written from; once write_subtitle has
\* returned the output is the whole output of those blocks.  A run that finds
\* an output there (it resumes, a readable checkpoint being present) asks the
\* oracle nothing, stands at the end of its loop, writes the whole output of
\* the blocks of the checkpoint, which is the output it found if that was
\* whole, and ends with the checkpoint removed.
C25_RerunAfterOutputIsHarmless ==
    /\ (output_file.exists /\ pc # "done") =>
            /\ CkptKind(progress_file) = "ok"
            /\ progress_file.current_batch = Len(progress_file.batches)
            /\ output_file \in LeftOutputs(progress_file.blocks)
            /\ pc = "cleanup" => output_file = OutputOf(progress_file.blocks)
    /\ out_before.exists =>
            /\ loaded.resume /\ loaded.ckpt = "ok"
            /\ sent = {}
            /\ pc \in {"loop", "write", "cleanup", "done"}
            /\ pc = "loop" => batch_idx >= Len(batches)
            /\ out_before \in LeftOutputs(ckpt_before.blocks)
            /\ pc \in {"cleanup", "done"} => output_file = OutputOf(ckpt_before.blocks)
            /\ pc = "done" => ~ progress_file.exists

\* A run that found the whole output written has ended.
C25_Witness ==
    /\ pc = "done"
    /\ out_before = OutputOf(blocks)
    /\ loaded.resume
    /\ sent = {}
    /\ output_file = out_before
    /\ progress_file = NoFile

\* C26: one top-level call of translate_batch asks the oracle at most
\* max_retries + 1 times.  The calls made before the one in work are counted
\* by retry_count, whatever their failure was; a call either ends
\* translate_batch (it returns or raises) or adds one to the counter, and the
\* call made with the counter at max_retries always ends it.
C26_AtMostMaxRetriesPlusOneCalls ==
    /\ [](pc = "call" => (retry_count <= max_retries /\ Len(tb_log) = retry_count))
    /\ [](pc = "failed" => Len(tb_log) <= max_retries + 1)
    /\ [][pc = "call" =>
            /\ pc' = "call" => (retry_count' = retry_count + 1
                                /\ Len(tb_log') = Len(tb_log) + 1)
            /\ pc' # "call" => pc' \in {"writeback", "failed"}
            /\ retry_count = max_retries => pc' # "call"]_vars

\* translate_batch has raised at its last call allowed, after failures of
\* both kinds that are retried.
C26_Witness ==
    /\ pc = "failed"
    /\ Len(tb_log) = max_retries + 1
    /\ \E i, j \in 1..max_retries : tb_log[i] = "decode_error" /\ tb_log[j] = "api_error"

\* C27: at every point of a run at which the process may end, a job that had
\* a readable checkpoint when the batch in work began has a readable
\* checkpoint on disk: the one it had, or the one save_progress writes for the
\* blocks in memory.
C27_CrashLeavesReadableCheckpoint ==
    (pc \in Running /\ CkptKind(ckpt_before) = "ok") =>
        /\ CkptKind(progress_file) = "ok"
        /\ ~ load_progress(progress_file).blocks_is_None
        /\ progress_file \in {ckpt_before, save_progress(blocks, batch_idx, batches)}

\* C28: a job never works on blocks that were parsed from another input file,
\* and the progress file it reads and writes holds no blocks of another input
\* file: distinct input files have distinct progress files.
C28_CheckpointOfOwnInputOnly ==
    path_pc \in {"running", "saving"} =>
        /\ path_blocks_of = path_input
        /\ path_ckpts[ProgressFileOf(path_input, path_dir)].of \in {NoInput, path_input}

\* C29: in the fixed-size translator a batch whose oracle call failed (the
\* call raised or its reply did not parse) ends the run in failure with the
\* checkpoint as it was, and no checkpoint counts that batch as resolved, so
\* that a resumed run sends its blocks again.
C29_FailedBatchNotResolved ==
    /\ [][(pc = "call" /\ Len(tb_log') > Len(tb_log) /\ tb_log'[Len(tb_log')].except)
            => (pc' = "failed" /\ progress_file' = progress_file /\ blocks' = blocks)]_vars
    /\ [](\A c \in DOMAIN tb_log :
            (tb_log[c].except /\ ~ smart_load_progress(progress_file).blocks_is_None)
                => progress_file.current_batch <= tb_log[c].batch)

\* C30: the batch list create_smart_batches returns is the one it returns
\* for the same blocks, min_size and max_size with any other target_size.
C30_TargetSizeIgnored ==
    seg_done =>
        \A target_size \in 1..(MaxSize + 1) :
            create_smart_batches(seg_blocks, target_size, seg_sizes[2], seg_sizes[3])
                = seg_batches

\* A call with min_size < target_size < max_size has returned a batch longer
\* than target_size and a batch shorter than it.
C30_Witness ==
    /\ seg_done
    /\ seg_sizes[2] < seg_sizes[1] /\ seg_sizes[1] < seg_sizes[3]
    /\ \E b \in DOMAIN seg_batches : BatchSize(seg_batches[b]) > seg_sizes[1]
    /\ \E b \in DOMAIN seg_batches : BatchSize(seg_batches[b]) < seg_sizes[1]

\* The 0-based indices of the blocks of the batch in work.
BatchIndices == {idx \in 0..(Len(blocks) - 1) :
                    /\ batches[batch_idx + 1][1] <= idx
                    /\ idx < batches[batch_idx + 1][2]}

\* A step of a batch in work changes no block but the one the zip loop is at,
\* and of that one the translated text only.
StoresOnePair ==
    \A i \in DOMAIN blocks :
        blocks'[i] # blocks[i] =>
            /\ pc = "writeback"
            /\ i = to_translate_indices[wb_pos + 1] + 1
            /\ blocks'[i].translated = translations[wb_pos + 1]
            /\ SourceOf(blocks') = SourceOf(blocks)

\* C22: the oracle is called with the blocks of the batch that lack a
\* translated text, in document order; the j-th string returned is stored on
\* the j-th of them, every other block of the document stays as it is, and the
\* checkpoint then written holds the blocks and the next batch, i + 1.
C22_OnlyLackingBlocksInOrder ==
    /\ [](pc \in {"call", "writeback", "save", "dump"} =>
            /\ Range(to_translate_indices)
                    = {idx \in BatchIndices : blocks[idx + 1].translated \in {None, <<>>}}
                      \cup {to_translate_indices[j] : j \in 1..wb_pos}
            /\ \A j \in 1..(Len(to_translate_indices) - 1) :
                    to_translate_indices[j] < to_translate_indices[j + 1]
            /\ \A j \in 1..wb_pos :
                    blocks[to_translate_indices[j] + 1].translated = translations[j])
    /\ [](pc \in {"save", "dump"} => wb_pos = Len(to_translate_indices))
    /\ [][(pc \in {"call", "writeback", "save", "dump"} /\ pc' \in Running)
            => StoresOnePair]_vars
    /\ [][pc = "dump" /\ pc' = "loop" =>
            /\ progress_file'.current_batch = batch_idx + 1
            /\ progress_file'.blocks = blocks
            /\ progress_file'.batches = batches
            /\ batch_idx' = batch_idx + 1]_vars

\* In a batch of two blocks or more, one of which had a translated text, the
\* strings returned for the others have been stored.
C22_Witness ==
    /\ pc = "save"
    /\ to_translate_indices # <<>>
    /\ Cardinality(BatchIndices) > Len(to_translate_indices)
    /\ \A j \in DOMAIN to_translate_indices :
            blocks[to_translate_indices[j] + 1].translated = translations[j]

====
